---- MODULE Spec2Model ----
(***************************************************************************)
(* Scheduling consistency engine of the meeting scheduler back end:        *)
(* meetings with embedded participants, meeting invitations, the conflict  *)
(* detector and the per-user booking dashboard.                            *)
(*                                                                         *)
(* Modelling conventions                                                   *)
(*  - The three collections are functions from ObjectIds (integers handed  *)
(*    out by one counter, so an id names a meeting or an invitation, never *)
(*    both) to documents; find() returns documents in ascending id order.  *)
(*  - Dates are day numbers and wall-clock strings "HH:MM" are slot        *)
(*    numbers 0..MaxTime; `new Date(...)` of a date and a time is the      *)
(*    instant date * DayLen + time.  Only well-formed date/time strings    *)
(*    are modelled.                                                        *)
(*  - Users are registered once and for all (register creates an empty     *)
(*    Booking for each); e-mail addresses are lower case and change only   *)
(*    through updateProfile, under the unique index on email.              *)
(*  - One request runs at a time in Spec.  The invitee callbacks of        *)
(*    createMeeting run concurrently in the code and write disjoint        *)
(*    documents; the order of their writes is the order of the list.       *)
(*  - SpecUUB applies updateUserBookings on its own; SpecAvailability and  *)
(*    SpecAvailabilityAny run the availability handlers of one user and    *)
(*    checkUserAvailability; SpecRace and SpecRebuildRace interleave the   *)
(*    steps of two requests.                                               *)
(***************************************************************************)
EXTENDS Integers, Sequences, FiniteSets, TLC

\* ---------------------------------------------------------------- bounds
MaxTime     == 1      \* time slots of a day are 0..MaxTime
MaxDate     == 2      \* calendar dates are 1..MaxDate
MaxMeetings == 2      \* meetings stored at a time
MaxInvitees == 2      \* longest invitee list of a createMeeting call
MaxCalls    == 2      \* requests of a behaviour that change a stored document
MaxTicks    == 1      \* clock advances in a behaviour
MaxSlots    == 1      \* longest slots array of an availability request

\* ------------------------------------------------------------ vocabulary
None  == "none"       \* null / undefined for ids of users and for strings
NoInt == 0 - 1        \* null / undefined where the value is an ObjectId, a date or a time

Users == {"ua", "ub"}
FirstHost == "ua"
RegisteredEmail == ("ua" :> "a@x") @@ ("ub" :> "b@x")   \* emails at registration
Emails == {"a@x", "b@x", "x@x"}      \* x@x belongs to no user at registration

Times == 0..MaxTime
Dates == 1..MaxDate
DayLen == MaxTime + 1

\* UserEmail is the email field of the User documents
VARIABLES meetings, invitations, bookings, nextId, now, calls, ticks, lastOp,
          UserEmail

\* availability is the availability array of the User documents; zoneWest
\* tells whether the time zone of the server process lies west of UTC
VARIABLES availability, zoneWest

\* inflight holds the requests that run concurrently in SpecRace and
\* SpecRebuildRace, each with its position and what it has read so far
VARIABLES inflight

vars == <<meetings, invitations, bookings, nextId, now, calls, ticks, lastOp,
          UserEmail, availability, zoneWest, inflight>>

\* User.findOne({ email })
FindUserByEmail(email) ==
  IF \E u \in Users : UserEmail[u] = email
  THEN CHOOSE u \in Users : UserEmail[u] = email
  ELSE None

\* new Date(`${date}T${time}`) and new Date(year, month - 1, day, hours, minutes)
ToInstant(date, time) == date * DayLen + time


\* ------------------------------------------------------------- sequences
RECURSIVE SortedSeq(_)
SortedSeq(S) ==
  IF S = {} THEN <<>>
  ELSE LET lo == CHOOSE x \in S : \A y \in S : x <= y
       IN <<lo>> \o SortedSeq(S \ {lo})

\* Array.prototype.find / findIndex over the indices whose element passes the
\* test: the first of them, 1-based; 0 when nothing matches
FindIndex(matching) ==
  IF matching = {} THEN 0
  ELSE CHOOSE i \in matching : \A j \in matching : i <= j

SeqsUpTo(S, n) == UNION {[1..k -> S] : k \in 0..n}

ItemIds(list) == {list[i].meetingId : i \in 1..Len(list)}

\* ------------------------------------------------------ conflict detector
\* the three-clause overlap test of checkTimeConflict, on instants
TimeOverlap(newStartTime, newEndTime, meetingStartTime, meetingEndTime) ==
  \/ (newStartTime >= meetingStartTime /\ newStartTime < meetingEndTime)
  \/ (newEndTime > meetingStartTime /\ newEndTime <= meetingEndTime)
  \/ (newStartTime <= meetingStartTime /\ newEndTime >= meetingEndTime)

\* the query of checkTimeConflict: two dotted conditions on the participants
\* array are matched independently (no $elemMatch), so one entry may carry
\* the user id and another one the accepted status
ConflictQuery(m, userIdToCheck, date) ==
  /\ m.date = date
  /\ \/ (/\ \E i \in 1..Len(m.participants) : m.participants[i].userId = userIdToCheck
         /\ \E i \in 1..Len(m.participants) : m.participants[i].status = "accepted")
     \/ m.hostId = userIdToCheck

\* checkTimeConflict(userId, date, startTime, endTime, excludeMeetingId):
\* the first meeting of the query result that overlaps, or NoInt
CheckTimeConflict(ms, userId, date, startTime, endTime, excludeMeetingId) ==
  LET userMeetings == {id \in DOMAIN ms :
                         /\ ConflictQuery(ms[id], userId, date)
                         /\ (excludeMeetingId # NoInt => id # excludeMeetingId)}
      hit == {id \in userMeetings :
                TimeOverlap(ToInstant(date, startTime), ToInstant(date, endTime),
                            ToInstant(ms[id].date, ms[id].startTime),
                            ToInstant(ms[id].date, ms[id].endTime))}
  IN IF hit = {} THEN NoInt ELSE CHOOSE id \in hit : \A other \in hit : id <= other

\* ------------------------------------------------------ booking projection
EmptyBooking ==
  [upcomingMeetings |-> <<>>, pendingMeetings |-> <<>>,
   canceledMeetings |-> <<>>, pastMeetings |-> <<>>]

SaveBookingAppend(old, lists) ==
  [old EXCEPT !.upcomingMeetings = @ \o lists.upcomingMeetings,
              !.pendingMeetings  = @ \o lists.pendingMeetings,
              !.canceledMeetings = @ \o lists.canceledMeetings,
              !.pastMeetings     = @ \o lists.pastMeetings]

\* booking.xMeetings = xMeetings; booking.save(): the four lists are replaced
SaveBooking(old, lists) ==
  [old EXCEPT !.upcomingMeetings = lists.upcomingMeetings,
              !.pendingMeetings  = lists.pendingMeetings,
              !.canceledMeetings = lists.canceledMeetings,
              !.pastMeetings     = lists.pastMeetings]

\* updateUserBookings: isPast
UUBIsPast(m, clock) ==
  LET meetingDate == ToInstant(m.date, 0)
      today       == (clock \div DayLen) * DayLen
      endDateTime == ToInstant(m.date, m.endTime)
  IN meetingDate < today \/ endDateTime < clock

\* updateUserBookings: participantRecord.  `p.userId.toString() === userId`
\* holds only when the caller passed the id as a string (req.user.id); with
\* an ObjectId argument the strict comparison is false for every entry.
UUBRecordIndex(m, userId, idIsString) ==
  FindIndex({i \in 1..Len(m.participants) :
               \/ /\ m.participants[i].userId # None
                  /\ idIsString
                  /\ m.participants[i].userId = userId
               \/ m.participants[i].email = UserEmail[userId]})

UUBCategoryCanceledFirst(m, userId, idIsString, clock) ==
  LET idx    == UUBRecordIndex(m, userId, idIsString)
      isHost == idIsString /\ m.hostId = userId
      status == m.participants[idx].status
  IN IF idx = 0 THEN "skip"
     ELSE IF m.status = "cancelled" \/ status = "rejected" THEN "canceled"
     ELSE IF UUBIsPast(m, clock) THEN "past"
     ELSE IF status = "pending" /\ ~isHost THEN "pending"
     ELSE IF status = "accepted" \/ isHost THEN "upcoming"
     ELSE "skip"

\* updateUserBookings: the category of one meeting, "skip" when it is left out
UUBCategory(m, userId, idIsString, clock) ==
  LET idx    == UUBRecordIndex(m, userId, idIsString)
      isHost == idIsString /\ m.hostId = userId
      status == m.participants[idx].status
  IN IF idx = 0 THEN "skip"
     ELSE IF UUBIsPast(m, clock) THEN "past"
     ELSE IF m.status = "cancelled" \/ status = "rejected" THEN "canceled"
     ELSE IF status = "pending" /\ ~isHost THEN "pending"
     ELSE IF status = "accepted" \/ isHost THEN "upcoming"
     ELSE "skip"

UUBItem(ms, id, userId, idIsString) ==
  LET m == ms[id]
  IN [meetingId |-> id, date |-> m.date, startTime |-> m.startTime,
      endTime |-> m.endTime,
      status |-> m.participants[UUBRecordIndex(m, userId, idIsString)].status,
      hostId |-> m.hostId, isActive |-> m.isActive]

\* updateUserBookings: the four lists computed from the meetings
UUBLists(ms, userId, idIsString, clock) ==
  LET allMeetings == SortedSeq({id \in DOMAIN ms :
                         \/ ms[id].hostId = userId
                         \/ \E i \in 1..Len(ms[id].participants) :
                               ms[id].participants[i].userId = userId})
      list(cat) ==
        LET sel == SelectSeq(allMeetings,
                             LAMBDA id : UUBCategory(ms[id], userId, idIsString, clock) = cat)
        IN [i \in 1..Len(sel) |-> UUBItem(ms, sel[i], userId, idIsString)]
  IN [upcomingMeetings |-> list("upcoming"), pendingMeetings |-> list("pending"),
      canceledMeetings |-> list("canceled"), pastMeetings |-> list("past")]

UserMissingNever(userId) == FALSE

\* `const user = await User.findById(userId); if (!user) return null`
UserMissing(userId) == userId \notin Users

\* updateUserBookings(userId): the Booking stored for the user afterwards
UpdateUserBookings(ms, old, userId, idIsString, clock) ==
  IF UserMissing(userId) THEN old
  ELSE SaveBooking(old, UUBLists(ms, userId, idIsString, clock))

\* updateUserBookings(userId) on the Booking collection: the returned value
\* ("null", or "ok" for the booking document) and the collection afterwards;
\* `Booking.findOne({ userId })`, `new Booking({ userId, ... })` when there is
\* none, then the four assignments and booking.save()
UUBStore(ms, bks, userId, idIsString, clock) ==
  IF UserMissing(userId) THEN [result |-> "null", bookings |-> bks]
  ELSE LET old == IF userId \in DOMAIN bks THEN bks[userId] ELSE EmptyBooking
       IN [result |-> "ok",
           bookings |-> (userId :> SaveBooking(old, UUBLists(ms, userId, idIsString, clock)))
                          @@ bks]

\* ----------------------------------------------------------- availability
\* a slot bound is a time, or NoInt for the empty string
EmptySlot == [startTime |-> NoInt, endTime |-> NoInt]

\* { startTime: '09:00', endTime: '17:00' }: the working day, which spans the
\* times of the model
DefaultSlot == [startTime |-> 0, endTime |-> MaxTime]

WorkDays == <<"Monday", "Tuesday", "Wednesday", "Thursday", "Friday">>

\* register: defaultAvailability
DefaultAvailability ==
  [i \in 1..5 |-> [day |-> WorkDays[i], isAvailable |-> TRUE, slots |-> <<DefaultSlot>>]]
    \o <<[day |-> "Saturday", isAvailable |-> FALSE, slots |-> <<>>],
         [day |-> "Sunday", isAvailable |-> FALSE, slots |-> <<>>]>>

\* ------------------------------------------------------------------ Init
Init ==
  /\ meetings = <<>>
  /\ invitations = <<>>
  /\ bookings = [u \in Users |-> EmptyBooking]
  /\ nextId = 1
  /\ now = ToInstant(1, MaxTime)
  /\ calls = 0
  /\ ticks = 0
  /\ lastOp = [op |-> "init", user |-> None, result |-> "ok", info |-> <<>>,
              changed |-> TRUE]
  /\ UserEmail = RegisteredEmail
  /\ availability = [u \in Users |-> DefaultAvailability]
  /\ zoneWest = FALSE
  /\ inflight = <<>>

\* ----------------------------------------------------------- createMeeting
InviteBlockedNever(conflict) == FALSE

\* `if (conflict) return { email, status: 'conflict detected' }`
InviteBlocked(conflict) == conflict # NoInt

\* one invitee callback of createMeeting; ms0 is the Meeting collection
\* after Meeting.create (the new meeting is stored without participants)
InviteOne(acc, ms0, mid, req, i, clock) ==
  LET email       == req.invitees[i]
      invitedUser == FindUserByEmail(email)
      conflict    == IF invitedUser = None THEN NoInt
                     ELSE CheckTimeConflict(ms0, invitedUser, req.date,
                                            req.startTime, req.endTime, NoInt)
  IN IF invitedUser # None /\ InviteBlocked(conflict)
     THEN [acc EXCEPT !.results[i] = [email |-> email, status |-> "conflict detected"]]
     ELSE [invs    |-> acc.invs @@ (acc.nid :> [meetingId |-> mid, userId |-> invitedUser,
                                                email |-> email, status |-> "pending"]),
           nid     |-> acc.nid + 1,
           parts   |-> Append(acc.parts, [userId |-> invitedUser, email |-> email,
                                          status |-> "pending", responseAt |-> NoInt]),
           bks     |-> IF invitedUser # None
                       THEN [acc.bks EXCEPT ![invitedUser] =
                               UpdateUserBookings(ms0, @, invitedUser, FALSE, clock)]
                       ELSE acc.bks,
           results |-> [acc.results EXCEPT
                          ![i] = [email |-> email, status |-> "invitation sent"]]]

RECURSIVE InviteAll(_, _, _, _, _, _)
InviteAll(acc, ms0, mid, req, k, clock) ==
  IF k > Len(req.invitees) THEN acc
  ELSE InviteAll(InviteOne(acc, ms0, mid, req, k, clock), ms0, mid, req, k + 1, clock)

\* participantSchema: userId is required, so meeting.save() rejects an entry
\* pushed with userId null
ParticipantsValid(parts) == \A i \in 1..Len(parts) : parts[i].userId # None

HostEntry(host) ==
  [userId |-> host, email |-> UserEmail[host], status |-> "accepted", responseAt |-> NoInt]

\* Meeting.create(req.body): the stored meeting has schema defaults and no
\* participants until meeting.save()
CreatedMeeting(host, date, startTime, endTime) ==
  [hostId |-> host, date |-> date, startTime |-> startTime, endTime |-> endTime,
   status |-> "upcoming", isActive |-> TRUE, participants |-> <<>>]

\* POST /api/meetings: the response and the collections after the call.
\* The callbacks of invitees.map run concurrently and touch disjoint
\* documents; the order of their pushes is the order of the list here, and
\* every other order is the in-order run of a permuted list.
CreateMeetingOut(host, date, startTime, endTime, invitees) ==
  LET mid     == nextId
      req     == [date |-> date, startTime |-> startTime, endTime |-> endTime,
                  invitees |-> invitees]
      ms0     == meetings @@ (mid :> CreatedMeeting(host, date, startTime, endTime))
      acc0    == [invs |-> invitations, nid |-> nextId + 1, parts |-> <<>>,
                  bks |-> bookings, results |-> [i \in 1..Len(invitees) |-> None]]
      acc     == InviteAll(acc0, ms0, mid, req, 1, now)
      parts   == Append(acc.parts, HostEntry(host))
      saved   == [ms0 EXCEPT ![mid].participants = parts]
  IN IF ParticipantsValid(parts)
     THEN [result |-> "ok", info |-> acc.results, meetings |-> saved,
           invitations |-> acc.invs, nextId |-> acc.nid,
           bookings |-> [acc.bks EXCEPT ![host] =
                           UpdateUserBookings(saved, @, host, TRUE, now)]]
     ELSE [result |-> "ValidationError", info |-> acc.results, meetings |-> ms0,
           invitations |-> acc.invs, nextId |-> acc.nid, bookings |-> acc.bks]

\* ----------------------------------------------------- respondToInvitation
EnsureInvitationCreates(invs, nid, meetingId, userId, userEmail) ==
  [id |-> nid,
   invs |-> invs @@ (nid :> [meetingId |-> meetingId, userId |-> userId,
                             email |-> userEmail, status |-> "pending"]),
   nid |-> nid + 1]

\* ensureInvitationExists(meetingId, userId, userEmail): the id of the first
\* invitation of the meeting addressed to the user by id or by email, and the
\* collection (with a fresh pending invitation when there was none)
EnsureInvitationExists(invs, nid, meetingId, userId, userEmail) ==
  LET found == {id \in DOMAIN invs :
                  /\ invs[id].meetingId = meetingId
                  /\ (invs[id].userId = userId \/ invs[id].email = userEmail)}
  IN IF found # {}
     THEN [id |-> CHOOSE id \in found : \A other \in found : id <= other,
           invs |-> invs, nid |-> nid]
     ELSE [id |-> nid,
           invs |-> invs @@ (nid :> [meetingId |-> meetingId, userId |-> userId,
                                     email |-> userEmail, status |-> "pending"]),
           nid |-> nid + 1]

\* "Make sure invitation belongs to the user"
RespondForbidden(invitation, user) ==
  /\ (invitation.userId # None /\ invitation.userId # user)
  /\ invitation.email # UserEmail[user]

\* the participants array after the response of `user` to `invitation`
RespondParticipants(parts, invitation, user, status, clock) ==
  LET participantIndex ==
        FindIndex({i \in 1..Len(parts) :
                     \/ parts[i].userId # None /\ parts[i].userId = user
                     \/ parts[i].email = invitation.email})
  IN IF status = "accepted"
     THEN IF participantIndex # 0
          THEN [parts EXCEPT ![participantIndex] =
                  [@ EXCEPT !.status = "accepted", !.responseAt = clock,
                            !.userId = IF @ = None THEN user ELSE @]]
          ELSE Append(parts, [userId |-> user, email |-> invitation.email,
                              status |-> "accepted", responseAt |-> clock])
     ELSE IF participantIndex # 0
          THEN [parts EXCEPT ![participantIndex] =
                  [@ EXCEPT !.status = "rejected", !.responseAt = clock]]
          ELSE parts

\* `!['accepted', 'rejected'].includes(status)`
StatusValid(status) == status \in {"accepted", "rejected"}

\* the response of a handler that returns before its first write
Unchanged(result, info) ==
  [result |-> result, info |-> info, meetings |-> meetings,
   invitations |-> invitations, nextId |-> nextId, bookings |-> bookings]

\* PUT /api/meetings/invitation/:invitationId: the response (info is the id
\* of the invitation answered) and the collections after the call
RespondOut(user, id, status) ==
  IF ~StatusValid(status) THEN Unchanged("InvalidInput", NoInt)
  ELSE IF id \notin DOMAIN invitations /\ id \notin DOMAIN meetings
  THEN Unchanged("NotFound", NoInt)
  ELSE
    LET ens   == IF id \in DOMAIN invitations
                 THEN [id |-> id, invs |-> invitations, nid |-> nextId]
                 ELSE EnsureInvitationExists(invitations, nextId, id, user, UserEmail[user])
        invId == ens.id
        inv   == ens.invs[invId]
        invs2 == [ens.invs EXCEPT ![invId].status = status]
        mid   == inv.meetingId
    IN IF RespondForbidden(inv, user)
       THEN [Unchanged("Forbidden", invId) EXCEPT !.invitations = ens.invs,
                                                  !.nextId = ens.nid]
       ELSE IF mid \notin DOMAIN meetings
       THEN [Unchanged("NotFound", invId) EXCEPT !.invitations = invs2,
                                                 !.nextId = ens.nid]
       ELSE
         LET parts == RespondParticipants(meetings[mid].participants, inv, user,
                                          status, now)
             ms2   == [meetings EXCEPT ![mid].participants = parts]
             bk1   == [bookings EXCEPT ![user] =
                         UpdateUserBookings(ms2, @, user, TRUE, now)]
             host  == ms2[mid].hostId
             bk2   == IF host # user
                      THEN [bk1 EXCEPT ![host] =
                              UpdateUserBookings(ms2, @, host, FALSE, now)]
                      ELSE bk1
         IN [result |-> "ok", info |-> invId, meetings |-> ms2,
             invitations |-> invs2, nextId |-> ens.nid, bookings |-> bk2]

\* ----------------------------------------------------------- updateMeeting
NotHostNever(m, user) == FALSE

\* `if (meeting.hostId.toString() !== req.user.id) return res.status(403)` of
\* updateMeeting, deleteMeeting, toggleMeetingActive, duplicateMeeting and
\* toggleMeetingStatus
NotHost(m, user) == m.hostId # user

\* `req.body.x || meeting.x`
BodyOr(bodyField, stored) == IF bodyField # NoInt THEN bodyField ELSE stored

\* the condition that starts the conflict check of updateMeeting
TimeChanged(m, body) ==
  \/ (body.date # NoInt /\ body.date # m.date)
  \/ (body.startTime # NoInt /\ body.startTime # m.startTime)
  \/ (body.endTime # NoInt /\ body.endTime # m.endTime)

UpdateConflictsNoHost(ms, mid, body) ==
  LET m == ms[mid]
      hit == SelectSeq(m.participants,
               LAMBDA p : /\ p.status = "accepted"
                          /\ p.userId # None
                          /\ p.userId # m.hostId
                          /\ CheckTimeConflict(ms, p.userId, BodyOr(body.date, m.date),
                                               BodyOr(body.startTime, m.startTime),
                                               BodyOr(body.endTime, m.endTime), mid) # NoInt)
  IN [i \in 1..Len(hit) |-> [userId |-> hit[i].userId, email |-> hit[i].email]]

\* the conflicts array of updateMeeting: the participants (in array order)
\* that are accepted, carry a userId and have a conflict at the new time
UpdateConflicts(ms, mid, body) ==
  LET m == ms[mid]
      hit == SelectSeq(m.participants,
               LAMBDA p : /\ p.status = "accepted"
                          /\ p.userId # None
                          /\ CheckTimeConflict(ms, p.userId, BodyOr(body.date, m.date),
                                               BodyOr(body.startTime, m.startTime),
                                               BodyOr(body.endTime, m.endTime), mid) # NoInt)
  IN [i \in 1..Len(hit) |-> [userId |-> hit[i].userId, email |-> hit[i].email]]

UpdateRejectedNever(conflicts) == FALSE

\* `if (conflicts.length > 0) return res.status(400)`
UpdateRejected(conflicts) == Len(conflicts) > 0

\* Meeting.findByIdAndUpdate(req.params.id, req.body)
ApplyBody(m, body) ==
  [m EXCEPT !.date = BodyOr(body.date, @),
            !.startTime = BodyOr(body.startTime, @),
            !.endTime = BodyOr(body.endTime, @),
            !.status = IF body.status # None THEN body.status ELSE @]

\* updateUserBookings for every participant that carries a userId, in array order
RECURSIVE RebuildParticipants(_, _, _, _, _)
RebuildParticipants(ms, bks, parts, k, clock) ==
  IF k > Len(parts) THEN bks
  ELSE RebuildParticipants(
         ms,
         IF parts[k].userId # None
         THEN [bks EXCEPT ![parts[k].userId] =
                 UpdateUserBookings(ms, @, parts[k].userId, FALSE, clock)]
         ELSE bks,
         parts, k + 1, clock)

\* PUT /api/meetings/:id: the response (info is the conflicts array) and
\* the collections after the call
UpdateMeetingOut(user, mid, body) ==
  IF mid \notin DOMAIN meetings THEN Unchanged("NotFound", <<>>)
  ELSE IF NotHost(meetings[mid], user) THEN Unchanged("Forbidden", <<>>)
  ELSE
    LET conflicts == IF TimeChanged(meetings[mid], body)
                     THEN UpdateConflicts(meetings, mid, body)
                     ELSE <<>>
        ms2 == [meetings EXCEPT ![mid] = ApplyBody(@, body)]
    IN IF UpdateRejected(conflicts)
       THEN Unchanged("Conflict", conflicts)
       ELSE [Unchanged("ok", <<>>) EXCEPT
               !.meetings = ms2,
               !.bookings = RebuildParticipants(ms2, bookings, ms2[mid].participants,
                                                1, now)]

\* ----------------------------------------------------------- deleteMeeting
\* DELETE /api/meetings/:id: the invitations of the meeting and the meeting
\* are deleted, then every participant that carries a userId is rebuilt
RemainingInvitationsAll(invs, mid) == invs

\* MeetingInvitation.deleteMany({ meetingId: meeting._id }): what is left
RemainingInvitations(invs, mid) ==
  [id \in {i \in DOMAIN invs : invs[i].meetingId # mid} |-> invs[id]]

DeleteMeetingOut(user, mid) ==
  IF mid \notin DOMAIN meetings THEN Unchanged("NotFound", <<>>)
  ELSE IF NotHost(meetings[mid], user) THEN Unchanged("Forbidden", <<>>)
  ELSE
    LET ms2  == [id \in DOMAIN meetings \ {mid} |-> meetings[id]]
        inv2 == RemainingInvitations(invitations, mid)
    IN [Unchanged("ok", <<>>) EXCEPT
          !.meetings = ms2,
          !.invitations = inv2,
          !.bookings = RebuildParticipants(ms2, bookings, meetings[mid].participants,
                                           1, now)]

\* ----------------------------------------------------- toggleMeetingActive
\* req.body.isActive: absent, true or false
ActiveBodies == {"undefined", "true", "false"}

\* PUT /api/meetings/:id/active: isActive is stored; no dashboard is rebuilt
ToggleMeetingActiveOut(user, mid, isActive) ==
  IF mid \notin DOMAIN meetings THEN Unchanged("NotFound", <<>>)
  ELSE IF NotHost(meetings[mid], user) THEN Unchanged("Forbidden", <<>>)
  ELSE [Unchanged("ok", <<>>) EXCEPT
          !.meetings = [meetings EXCEPT ![mid].isActive =
                          IF isActive = "undefined" THEN ~@ ELSE isActive = "true"]]

\* -------------------------------------------------------- duplicateMeeting
\* POST /api/meetings/:id/duplicate: a copy with the host as its only
\* participant is stored (info is its id); no dashboard is rebuilt
DuplicateMeetingOut(user, mid, date) ==
  IF mid \notin DOMAIN meetings THEN Unchanged("NotFound", <<>>)
  ELSE IF NotHost(meetings[mid], user) THEN Unchanged("Forbidden", <<>>)
  ELSE
    LET m    == meetings[mid]
        copy == [CreatedMeeting(m.hostId, BodyOr(date, m.date), m.startTime, m.endTime)
                   EXCEPT !.participants = <<HostEntry(user)>>]
    IN [Unchanged("ok", <<nextId>>) EXCEPT
          !.meetings = meetings @@ (nextId :> copy),
          !.nextId = nextId + 1]

\* ----------------------------------------------------- toggleMeetingStatus
\* the status enum of meetingSchema, checked by meeting.save()
MeetingStatusValid(status) == status \in {"upcoming", "pending", "cancelled", "past"}

\* req.body.status: absent, or one of the three values the handler accepts
ToggleBodies == {None, "scheduled", "canceled", "completed"}

\* the status toggleMeetingStatus assigns before meeting.save()
ToggledStatus(stored, bodyStatus) ==
  IF bodyStatus \in {"scheduled", "canceled", "completed"} THEN bodyStatus
  ELSE IF stored = "scheduled" THEN "completed"
  ELSE IF stored = "completed" THEN "canceled"
  ELSE "scheduled"

\* PUT /api/meetings/:id/toggle: the response and the collections after the
\* call; meeting.save() validates the assigned status before anything is stored
ToggleMeetingStatusOut(user, mid, bodyStatus) ==
  IF mid \notin DOMAIN meetings THEN Unchanged("NotFound", <<>>)
  ELSE IF NotHost(meetings[mid], user) THEN Unchanged("Forbidden", <<>>)
  ELSE
    LET status == ToggledStatus(meetings[mid].status, bodyStatus)
        ms2    == [meetings EXCEPT ![mid].status = status]
    IN IF ~(MeetingStatusValid(status) /\ ParticipantsValid(meetings[mid].participants))
       THEN Unchanged("ValidationError", <<>>)
       ELSE [Unchanged("ok", <<>>) EXCEPT
               !.meetings = ms2,
               !.bookings = RebuildParticipants(ms2, bookings, ms2[mid].participants,
                                                1, now)]

\* --------------------------------------------------------- refreshBookings
\* refreshBookings: isPast
RefreshIsPast(m, clock) == ToInstant(m.date, m.endTime) < clock

\* refreshBookings: participantEntry (req.user.id is a string)
RefreshEntryIndex(m, user) ==
  FindIndex({i \in 1..Len(m.participants) :
               m.participants[i].userId # None /\ m.participants[i].userId = user})

\* refreshBookings: the category of one meeting of the first loop
RefreshCategory(m, user, clock) ==
  LET idx == RefreshEntryIndex(m, user)
  IN IF idx = 0 /\ m.hostId # user THEN "skip"
     ELSE IF RefreshIsPast(m, clock) THEN "past"
     ELSE IF m.status = "canceled" THEN "canceled"
     ELSE IF (idx # 0 /\ m.participants[idx].status = "accepted") \/ m.hostId = user
          THEN "upcoming"
     ELSE "skip"

RefreshItem(ms, id, user) ==
  LET m   == ms[id]
      idx == RefreshEntryIndex(m, user)
  IN [meetingId |-> id, date |-> m.date, startTime |-> m.startTime,
      endTime |-> m.endTime,
      status |-> IF idx # 0 THEN m.participants[idx].status ELSE "accepted",
      hostId |-> m.hostId, isActive |-> m.isActive]

\* refreshBookings: the four lists computed from meetings and pending invitations
RefreshLists(ms, invs, user, clock) ==
  LET allMeetings == SortedSeq({id \in DOMAIN ms :
                         \/ ms[id].hostId = user
                         \/ \E i \in 1..Len(ms[id].participants) :
                               ms[id].participants[i].userId = user})
      list(cat) ==
        LET sel == SelectSeq(allMeetings,
                             LAMBDA id : RefreshCategory(ms[id], user, clock) = cat)
        IN [i \in 1..Len(sel) |-> RefreshItem(ms, sel[i], user)]
      pendingInvitations ==
        SortedSeq({id \in DOMAIN invs :
                     /\ (invs[id].userId = user \/ invs[id].email = UserEmail[user])
                     /\ invs[id].status = "pending"})
      shown == SelectSeq(pendingInvitations,
                         LAMBDA id : /\ invs[id].meetingId \in DOMAIN ms
                                     /\ ~RefreshIsPast(ms[invs[id].meetingId], clock))
      pendingItem(id) ==
        LET mid == invs[id].meetingId
        IN [meetingId |-> mid, date |-> ms[mid].date, startTime |-> ms[mid].startTime,
            endTime |-> ms[mid].endTime, status |-> "pending",
            hostId |-> ms[mid].hostId, isActive |-> ms[mid].isActive]
  IN [upcomingMeetings |-> list("upcoming"),
      pendingMeetings  |-> [i \in 1..Len(shown) |-> pendingItem(shown[i])],
      canceledMeetings |-> list("canceled"),
      pastMeetings     |-> list("past")]

\* refreshBookings: the Booking stored for the user afterwards
RefreshBooking(ms, invs, old, user, clock) ==
  SaveBooking(old, RefreshLists(ms, invs, user, clock))

\* PUT /api/bookings/refresh: the response and the collections after the call
RefreshOut(user) ==
  [Unchanged("ok", <<>>) EXCEPT
     !.bookings = [bookings EXCEPT ![user] =
                     RefreshBooking(meetings, invitations, @, user, now)]]

\* ------------------------------------------------------------------ requests
\* a request that changes a stored document uses up one of the MaxCalls calls
Charge(out) ==
  IF out.meetings = meetings /\ out.invitations = invitations /\ out.bookings = bookings
  THEN 0 ELSE 1

\* one request served from start to end: the collections take the values the
\* handler leaves and lastOp records the response.  A request that changes no
\* document leaves a state that differs from its start state in lastOp alone,
\* so such requests are explored only right after a request that did change
\* one (or after Init): no reachable state is lost.
Serve(name, user, out) ==
  /\ calls < MaxCalls \/ lastOp.changed
  /\ calls + Charge(out) <= MaxCalls
  /\ Charge(out) = 1 \/ lastOp.changed
  /\ calls' = calls + Charge(out)
  /\ meetings' = out.meetings
  /\ invitations' = out.invitations
  /\ bookings' = out.bookings
  /\ nextId' = out.nextId
  /\ lastOp' = [op |-> name, user |-> user, result |-> out.result,
                info |-> out.info, changed |-> Charge(out) = 1]
  /\ UNCHANGED <<now, ticks, UserEmail, availability, zoneWest, inflight>>

\* Users are interchangeable until the first meeting exists, so the first
\* meeting is hosted by FirstHost; every other behaviour is a renaming of one
\* explored here.
CreateMeeting(host, date, startTime, endTime, invitees) ==
  /\ calls < MaxCalls
  /\ nextId = 1 => host = FirstHost
  /\ Cardinality(DOMAIN meetings) < MaxMeetings
  /\ Serve("createMeeting", host,
           CreateMeetingOut(host, date, startTime, endTime, invitees))

RespondToInvitation(user, id, status) ==
  Serve("respondToInvitation", user, RespondOut(user, id, status))

UpdateMeeting(user, mid, body) ==
  Serve("updateMeeting", user, UpdateMeetingOut(user, mid, body))

RefreshBookings(user) ==
  Serve("refreshBookings", user, RefreshOut(user))

DeleteMeeting(user, mid) ==
  Serve("deleteMeeting", user, DeleteMeetingOut(user, mid))

ToggleMeetingActive(user, mid, isActive) ==
  Serve("toggleMeetingActive", user, ToggleMeetingActiveOut(user, mid, isActive))

DuplicateMeeting(user, mid, date) ==
  /\ Cardinality(DOMAIN meetings) < MaxMeetings
  /\ Serve("duplicateMeeting", user, DuplicateMeetingOut(user, mid, date))

ToggleMeetingStatus(user, mid, bodyStatus) ==
  Serve("toggleMeetingStatus", user, ToggleMeetingStatusOut(user, mid, bodyStatus))

\* ------------------------------------------------------------ updateProfile
\* PUT /api/users/profile with an email: User.findByIdAndUpdate under the
\* unique index on email; the emails of the users after the call
UpdateProfileOut(user, email) ==
  IF \E other \in Users \ {user} : UserEmail[other] = email
  THEN [result |-> "DuplicateKey", emails |-> UserEmail]
  ELSE [result |-> "ok", emails |-> [UserEmail EXCEPT ![user] = email]]

\* a profile update that changes the email uses up one of the MaxCalls calls
UpdateProfile(user, email) ==
  LET out     == UpdateProfileOut(user, email)
      changed == out.emails # UserEmail
  IN /\ calls < MaxCalls \/ lastOp.changed
     /\ calls + (IF changed THEN 1 ELSE 0) <= MaxCalls
     /\ changed \/ lastOp.changed
     /\ calls' = calls + (IF changed THEN 1 ELSE 0)
     /\ UserEmail' = out.emails
     /\ lastOp' = [op |-> "updateProfile", user |-> user, result |-> out.result,
                   info |-> <<>>, changed |-> changed]
     /\ UNCHANGED <<meetings, invitations, bookings, nextId, now, ticks,
                    availability, zoneWest, inflight>>

\* ------------------------------------------------------------------ clock
\* the server clock advances
Tick ==
  /\ ticks < MaxTicks
  /\ now' = now + 1
  /\ ticks' = ticks + 1
  /\ UNCHANGED <<meetings, invitations, bookings, nextId, calls, lastOp, UserEmail,
                 availability, zoneWest, inflight>>

\* ------------------------------------------------------- request parameters
Windows == {w \in Times \X Times : w[1] <= w[2]}

InviteeLists == SeqsUpTo(Emails, MaxInvitees)

\* the status field of the response request: the two valid values and one other
ResponseStatuses == {"accepted", "rejected", "pending"}

NoBody == [date |-> NoInt, startTime |-> NoInt, endTime |-> NoInt, status |-> None]

\* request bodies of updateMeeting: one scheduling field, or the status
UpdateBodies ==
  {[NoBody EXCEPT !.date = d] : d \in Dates}
    \cup {[NoBody EXCEPT !.startTime = t] : t \in Times}
    \cup {[NoBody EXCEPT !.endTime = t] : t \in Times}
    \cup {[NoBody EXCEPT !.status = "cancelled"]}

Next ==
  \/ Tick
  \/ \E host \in Users, date \in Dates, w \in Windows, invitees \in InviteeLists :
        CreateMeeting(host, date, w[1], w[2], invitees)
  \/ \E user \in Users, id \in 1..nextId, status \in ResponseStatuses :
        RespondToInvitation(user, id, status)
  \/ \E user \in Users, mid \in DOMAIN meetings, body \in UpdateBodies :
        UpdateMeeting(user, mid, body)
  \/ \E user \in Users : RefreshBookings(user)
  \/ \E user \in Users, email \in Emails : UpdateProfile(user, email)
  \/ \E user \in Users, mid \in DOMAIN meetings : DeleteMeeting(user, mid)
  \/ \E user \in Users, mid \in DOMAIN meetings, isActive \in ActiveBodies :
        ToggleMeetingActive(user, mid, isActive)
  \/ \E user \in Users, mid \in DOMAIN meetings, date \in Dates \cup {NoInt} :
        DuplicateMeeting(user, mid, date)
  \/ \E user \in Users, mid \in DOMAIN meetings, bodyStatus \in ToggleBodies :
        ToggleMeetingStatus(user, mid, bodyStatus)

Spec == Init /\ [][Next]_vars

\* ------------------------------------------- updateUserBookings on its own
\* ids handed to updateUserBookings: the users, and an id no User document has
GhostIds == {"uz"}

\* one stored meeting of the first host with one registered invitee
UUBMeetings ==
  {1 :> [CreatedMeeting(FirstHost, date, w[1], w[2]) EXCEPT
           !.participants = <<[userId |-> "ub", email |-> RegisteredEmail["ub"],
                               status |-> status, responseAt |-> NoInt],
                              [userId |-> FirstHost, email |-> RegisteredEmail[FirstHost],
                               status |-> "accepted", responseAt |-> NoInt]>>,
           !.status = meetingStatus] :
     date \in Dates, w \in Windows, status \in {"pending", "accepted", "rejected"},
     meetingStatus \in {"upcoming", "cancelled"}}

InitUUB ==
  /\ meetings \in UUBMeetings
  /\ invitations = <<>>
  /\ bookings = [u \in Users |-> EmptyBooking]
  /\ nextId = 2
  /\ now \in {ToInstant(1, MaxTime), ToInstant(MaxDate, 0)}
  /\ calls = 0
  /\ ticks = 0
  /\ lastOp = [op |-> "init", user |-> None, result |-> "ok", info |-> <<>>,
              changed |-> TRUE]
  /\ UserEmail = RegisteredEmail
  /\ availability = [u \in Users |-> DefaultAvailability]
  /\ zoneWest = FALSE
  /\ inflight = <<>>

\* one call of updateUserBookings(userId)
UUBCall(userId, idIsString) ==
  LET out == UUBStore(meetings, bookings, userId, idIsString, now)
  IN /\ calls < MaxCalls
     /\ calls' = calls + 1
     /\ bookings' = out.bookings
     /\ lastOp' = [op |-> "updateUserBookings", user |-> userId, result |-> out.result,
                   info |-> <<>>, changed |-> out.bookings # bookings]
     /\ UNCHANGED <<meetings, invitations, nextId, now, ticks, UserEmail,
                    availability, zoneWest, inflight>>

NextUUB ==
  \E userId \in Users \cup GhostIds, idIsString \in BOOLEAN : UUBCall(userId, idIsString)

SpecUUB == InitUUB /\ [][NextUUB]_vars

\* ------------------------------------------------- availability handlers
ValidDays == {"Monday", "Tuesday", "Wednesday", "Thursday", "Friday", "Saturday", "Sunday"}

\* user.availability.findIndex(a => a.day === day), 1-based; 0 for -1
DayIndex(avail, day) == FindIndex({i \in 1..Len(avail) : avail[i].day = day})

\* the isAvailable field of a request body: absent, true or false
AvailableBodies == {"undefined", "true", "false"}

\* a field of a request body that should hold an array: absent, or the array
NoArray == [isArray |-> FALSE, items |-> <<>>]

ArrayOf(items) == [isArray |-> TRUE, items |-> items]

\* validatedSlots: the slots of the request with missing bounds as '', and
\* the default empty slot when the array is empty; [] unless isAvailable is
\* truthy and slots is an array
ValidatedSlots(isAvailable, slots) ==
  IF isAvailable = "true" /\ slots.isArray
  THEN IF Len(slots.items) = 0 THEN <<EmptySlot>> ELSE slots.items
  ELSE <<>>

\* updateDayAvailability: the availability array after the day was set
UpdateDayEntry(avail, day, isAvailable, slots) ==
  LET validatedSlots == ValidatedSlots(isAvailable, slots)
      dayIndex       == DayIndex(avail, day)
  IN IF dayIndex = 0
     THEN Append(avail, [day |-> day,
                         isAvailable |-> IF isAvailable # "undefined"
                                         THEN isAvailable = "true" ELSE TRUE,
                         slots |-> IF isAvailable # "false" THEN validatedSlots ELSE <<>>])
     ELSE IF isAvailable # "undefined"
     THEN [avail EXCEPT
             ![dayIndex].isAvailable = (isAvailable = "true"),
             ![dayIndex].slots = IF isAvailable # "true" THEN <<>>
                                 ELSE IF Len(validatedSlots) > 0 THEN validatedSlots
                                 ELSE IF Len(@) = 0 THEN <<EmptySlot>>
                                 ELSE @]
     ELSE IF isAvailable # "false" /\ Len(validatedSlots) > 0
     THEN [avail EXCEPT ![dayIndex].slots = validatedSlots]
     ELSE avail

\* PUT /api/availability/:day
UpdateDayAvailabilityOut(user, day, isAvailable, slots) ==
  IF day \notin ValidDays
  THEN [result |-> "BadRequest", availability |-> availability[user]]
  ELSE [result |-> "ok",
        availability |-> UpdateDayEntry(availability[user], day, isAvailable, slots)]

\* the saturday or sunday field of a weekend request that has none
NoDayBody == [given |-> FALSE, isAvailable |-> "undefined", slots |-> NoArray]

\* updateWeekendAvailability: one of the two days, `if (saturday) { ... }`
UpdateWeekendEntry(avail, day, body) ==
  IF ~body.given THEN avail
  ELSE
  LET isAvailable    == body.isAvailable
      validatedSlots == ValidatedSlots(isAvailable, body.slots)
      index          == DayIndex(avail, day)
  IN IF index = 0
     THEN Append(avail, [day |-> day,
                         isAvailable |-> IF isAvailable # "undefined"
                                         THEN isAvailable = "true" ELSE FALSE,
                         slots |-> IF isAvailable = "true" THEN validatedSlots ELSE <<>>])
     ELSE IF isAvailable # "undefined"
     THEN [avail EXCEPT
             ![index].isAvailable = (isAvailable = "true"),
             ![index].slots = IF isAvailable # "true" THEN <<>>
                              ELSE IF Len(validatedSlots) > 0 THEN validatedSlots
                              ELSE IF Len(@) = 0 THEN <<EmptySlot>>
                              ELSE @]
     ELSE IF isAvailable = "true" /\ Len(validatedSlots) > 0
     THEN [avail EXCEPT ![index].slots = validatedSlots]
     ELSE avail

\* PUT /api/availability/weekend: Saturday, then Sunday
UpdateWeekendAvailabilityOut(user, saturday, sunday) ==
  [result |-> "ok",
   availability |-> UpdateWeekendEntry(
                      UpdateWeekendEntry(availability[user], "Saturday", saturday),
                      "Sunday", sunday)]

CopyTargetAlways(avail, sourceSlots, targetDay) ==
  LET targetIndex == DayIndex(avail, targetDay)
  IN IF targetIndex = 0
     THEN Append(avail, [day |-> targetDay, isAvailable |-> TRUE, slots |-> sourceSlots])
     ELSE [avail EXCEPT ![targetIndex].slots = sourceSlots]

\* copyTimeSlots: one target day other than the source.  The deep copy
\* JSON.parse(JSON.stringify(slots)) is the same value in a new object.
CopyTarget(avail, sourceSlots, targetDay) ==
  LET targetIndex == DayIndex(avail, targetDay)
  IN IF targetIndex = 0
     THEN Append(avail, [day |-> targetDay, isAvailable |-> TRUE, slots |-> sourceSlots])
     ELSE IF avail[targetIndex].isAvailable
     THEN [avail EXCEPT ![targetIndex].slots = sourceSlots]
     ELSE avail

\* copyTimeSlots: `for (const targetDay of targetDays)`
RECURSIVE CopyLoop(_, _, _, _, _)
CopyLoop(avail, sourceDay, sourceSlots, targetDays, k) ==
  IF k > Len(targetDays) THEN avail
  ELSE CopyLoop(IF targetDays[k] = sourceDay THEN avail
                ELSE CopyTarget(avail, sourceSlots, targetDays[k]),
                sourceDay, sourceSlots, targetDays, k + 1)

\* POST /api/availability/copy; sourceDay None and targetDays <<>> stand for
\* missing fields
CopyTimeSlotsOut(user, sourceDay, targetDays) ==
  LET avail == availability[user]
      src   == DayIndex(avail, sourceDay)
  IN IF \/ sourceDay \notin ValidDays
        \/ Len(targetDays) = 0
        \/ \E k \in 1..Len(targetDays) : targetDays[k] \notin ValidDays
     THEN [result |-> "BadRequest", availability |-> avail]
     ELSE IF src = 0
     THEN [result |-> "NotFound", availability |-> avail]
     ELSE [result |-> "ok",
           availability |-> CopyLoop(avail, sourceDay, avail[src].slots, targetDays, 1)]

\* PUT /api/availability: the array of the body replaces the stored one
UpdateAvailabilityOut(user, body) ==
  IF ~body.isArray THEN [result |-> "BadRequest", availability |-> availability[user]]
  ELSE [result |-> "ok", availability |-> body.items]

\* ---------------------------------------------------- checkUserAvailability
WeekDays == <<"Sunday", "Monday", "Tuesday", "Wednesday", "Thursday", "Friday", "Saturday">>

\* the weekday of a calendar date; date 1 is a Sunday
Weekday(date) == WeekDays[((date + 6) % 7) + 1]

\* new Date(date).toLocaleString('en-US', { weekday: 'long' }): the date
\* string is parsed as midnight UTC and the weekday is that of the instant
\* in the zone of the server, the day before in a zone west of UTC
DayOfWeek(date, west) == IF west THEN Weekday(date + 6) ELSE Weekday(date)

\* parseTimeToMinutes of "HH:00"; 0 for an empty string
ParseTimeToMinutes(timeStr) == IF timeStr = NoInt THEN 0 ELSE timeStr * 60

SlotFitsWildcard(slot, startTime, endTime) ==
  /\ ParseTimeToMinutes(startTime) >= ParseTimeToMinutes(slot.startTime)
  /\ ParseTimeToMinutes(endTime) <= ParseTimeToMinutes(slot.endTime)

\* one round of the slot loop: slots with an empty bound are skipped
SlotFits(slot, startTime, endTime) ==
  /\ slot.startTime # NoInt
  /\ slot.endTime # NoInt
  /\ ParseTimeToMinutes(startTime) >= ParseTimeToMinutes(slot.startTime)
  /\ ParseTimeToMinutes(endTime) <= ParseTimeToMinutes(slot.endTime)

\* isTimeAvailable after the slot check
IsTimeAvailable(entry, startTime, endTime) ==
  IF Len(entry.slots) > 0
  THEN \E k \in 1..Len(entry.slots) : SlotFits(entry.slots[k], startTime, endTime)
  ELSE TRUE

\* the user checkUserAvailability looks at: the caller, or the user found by
\* email and then by id; "CastError" when findById is given a string that is
\* no ObjectId, None when no user has the id
TargetUser(caller, userId) ==
  IF userId = None \/ userId = caller THEN caller
  ELSE IF FindUserByEmail(userId) # None THEN FindUserByEmail(userId)
  ELSE IF userId \in Emails THEN "CastError"
  ELSE IF userId \in Users THEN userId
  ELSE None

\* POST /api/meetings/check-availability: the response, and whether
\* checkTimeConflict was called.  NoInt stands for a missing field.
CheckUserAvailabilityOut(caller, userId, date, startTime, endTime) ==
  LET targetUser == TargetUser(caller, userId)
      dayOfWeek  == DayOfWeek(date, zoneWest)
      avail      == availability[targetUser]
      idx        == DayIndex(avail, dayOfWeek)
      fits       == IsTimeAvailable(avail[idx], startTime, endTime)
      conflict   == CheckTimeConflict(meetings, targetUser, date, startTime, endTime, NoInt)
  IN IF date = NoInt \/ startTime = NoInt \/ endTime = NoInt
     THEN [result |-> "BadRequest", available |-> FALSE, consulted |-> FALSE]
     ELSE IF targetUser = "CastError"
     THEN [result |-> "CastError", available |-> FALSE, consulted |-> FALSE]
     ELSE IF targetUser = None
     THEN [result |-> "assumed", available |-> TRUE, consulted |-> FALSE]
     ELSE IF idx = 0 \/ ~avail[idx].isAvailable
     THEN [result |-> "closed", available |-> FALSE, consulted |-> FALSE]
     ELSE [result |-> "ok", available |-> fits /\ (conflict = NoInt), consulted |-> fits]

\* ------------------------------------------------- availability requests
\* a request of the availability handlers: availability of the user is
\* replaced and lastOp records the response; requests that change nothing
\* are explored under the rule of Serve
ServeAvailability(name, user, result, info, avail) ==
  LET charge == IF avail # availability[user] THEN 1 ELSE 0
  IN /\ calls < MaxCalls \/ lastOp.changed
     /\ calls + charge <= MaxCalls
     /\ charge = 1 \/ lastOp.changed
     /\ calls' = calls + charge
     /\ availability' = [availability EXCEPT ![user] = avail]
     /\ lastOp' = [op |-> name, user |-> user, result |-> result, info |-> info,
                   changed |-> charge = 1]
     /\ UNCHANGED <<meetings, invitations, bookings, nextId, now, ticks, UserEmail,
                    zoneWest, inflight>>

UpdateDayAvailability(user, day, isAvailable, slots) ==
  LET out == UpdateDayAvailabilityOut(user, day, isAvailable, slots)
  IN ServeAvailability("updateDayAvailability", user, out.result, <<>>,
                       out.availability)

UpdateWeekendAvailability(user, saturday, sunday) ==
  LET out == UpdateWeekendAvailabilityOut(user, saturday, sunday)
  IN ServeAvailability("updateWeekendAvailability", user, out.result, <<>>,
                       out.availability)

CopyTimeSlots(user, sourceDay, targetDays) ==
  LET out == CopyTimeSlotsOut(user, sourceDay, targetDays)
  IN ServeAvailability("copyTimeSlots", user, out.result, <<>>, out.availability)

UpdateAvailability(user, body) ==
  LET out == UpdateAvailabilityOut(user, body)
  IN ServeAvailability("updateAvailability", user, out.result, <<>>, out.availability)

CheckUserAvailability(caller, userId, date, startTime, endTime) ==
  LET out == CheckUserAvailabilityOut(caller, userId, date, startTime, endTime)
  IN ServeAvailability("checkUserAvailability", caller, out.result,
                       <<out.available, out.consulted>>, availability[caller])

\* ---------------------------------------------- availability specifications
\* the days named by requests: the weekend, a working day, and a name that
\* is no weekday
RequestDays == {"Saturday", "Sunday", "Monday", "Funday"}

\* slots of requests: both bounds empty, the working day, the last time of
\* the day, and a slot without a start
RequestSlots ==
  {EmptySlot, DefaultSlot, [startTime |-> MaxTime, endTime |-> MaxTime],
   [startTime |-> NoInt, endTime |-> MaxTime]}

\* the slots field of a request body
SlotBodies ==
  {NoArray} \cup {ArrayOf(slots) : slots \in SeqsUpTo(RequestSlots, MaxSlots)}

DayBodies == [given : {TRUE}, isAvailable : AvailableBodies, slots : SlotBodies]

\* the saturday and sunday fields of a weekend request
WeekendBodies ==
  {NoDayBody} \cup {b \in DayBodies : ~b.slots.isArray \/ b.isAvailable = "true"}

TargetLists == SeqsUpTo(RequestDays, 2)

\* arrays sent to PUT /api/availability: a single working day; a closed
\* Sunday that keeps a slot next to an open Monday without slots
AvailabilityBodies ==
  {NoArray,
   ArrayOf(<<[day |-> "Monday", isAvailable |-> TRUE, slots |-> <<DefaultSlot>>]>>),
   ArrayOf(<<[day |-> "Sunday", isAvailable |-> FALSE, slots |-> <<DefaultSlot>>],
             [day |-> "Monday", isAvailable |-> TRUE, slots |-> <<>>]>>)}

\* the userId field of a check request
TargetRefs == {None} \cup Emails \cup Users \cup {"uz"}

\* no meeting, or one meeting of the first host with the other user invited
AvailabilityMeetings ==
  {<<>>} \cup {ms \in UUBMeetings :
                 /\ ms[1].date = MaxDate
                 /\ ms[1].status = "upcoming"
                 /\ ms[1].participants[1].status = "pending"
                 /\ ms[1].startTime = 0 /\ ms[1].endTime = MaxTime}

InitAvailability ==
  /\ meetings \in AvailabilityMeetings
  /\ invitations = <<>>
  /\ bookings = [u \in Users |-> EmptyBooking]
  /\ nextId = 2
  /\ now = ToInstant(1, MaxTime)
  /\ calls = 0
  /\ ticks = 0
  /\ lastOp = [op |-> "init", user |-> None, result |-> "ok", info |-> <<>>,
              changed |-> TRUE]
  /\ UserEmail = RegisteredEmail
  /\ availability = [u \in Users |-> DefaultAvailability]
  /\ zoneWest \in BOOLEAN
  /\ inflight = <<>>

\* the first host edits the availability; the other user keeps the default
NextAvailability ==
  \/ \E day \in RequestDays, body \in DayBodies :
        UpdateDayAvailability(FirstHost, day, body.isAvailable, body.slots)
  \/ \E saturday \in WeekendBodies, sunday \in WeekendBodies :
        UpdateWeekendAvailability(FirstHost, saturday, sunday)
  \/ \E sourceDay \in RequestDays \cup {None}, targetDays \in TargetLists :
        CopyTimeSlots(FirstHost, sourceDay, targetDays)
  \/ \E caller \in Users, userId \in TargetRefs, date \in Dates \cup {NoInt},
        w \in Windows :
        CheckUserAvailability(caller, userId, date, w[1], w[2])

SpecAvailability == InitAvailability /\ [][NextAvailability]_vars

NextAvailabilityAny ==
  \/ NextAvailability
  \/ \E body \in AvailabilityBodies : UpdateAvailability(FirstHost, body)

SpecAvailabilityAny == InitAvailability /\ [][NextAvailabilityAny]_vars

\* ------------------------------------------- concurrent updateMeeting
\* two requests in flight
RaceRequests == 1..2

\* dates of the bodies of the concurrent requests: one date more than the
\* stored meetings use, so that a day without meetings exists
RaceDates == 1..(MaxDate + 1)

RaceBodies ==
  {[NoBody EXCEPT !.date = d] : d \in RaceDates}
    \cup {[NoBody EXCEPT !.startTime = t] : t \in Times}
    \cup {[NoBody EXCEPT !.endTime = t] : t \in Times}

\* the first host hosts one meeting on each date, each with the other user
\* invited and without answer
RaceMeetings ==
  {[mid \in 1..MaxDate |->
      [CreatedMeeting(FirstHost, mid, w[mid][1], w[mid][2]) EXCEPT
         !.participants = <<[userId |-> "ub", email |-> RegisteredEmail["ub"],
                             status |-> "pending", responseAt |-> NoInt],
                            [userId |-> FirstHost, email |-> RegisteredEmail[FirstHost],
                             status |-> "accepted", responseAt |-> NoInt]>>]] :
     w \in [1..MaxDate -> Windows]}

Idle == [pc |-> "idle", mid |-> NoInt, body |-> NoBody, result |-> None,
         sawWrite |-> FALSE]

InitRace ==
  /\ UserEmail = RegisteredEmail
  /\ meetings \in RaceMeetings
  /\ invitations = <<>>
  /\ bookings = [u \in Users |-> UpdateUserBookings(meetings, EmptyBooking, u, TRUE,
                                                    ToInstant(1, 0))]
  /\ nextId = MaxDate + 1
  /\ now = ToInstant(1, 0)
  /\ calls = 0
  /\ ticks = 0
  /\ lastOp = [op |-> "init", user |-> None, result |-> "ok", info |-> <<>>,
              changed |-> TRUE]
  /\ availability = [u \in Users |-> DefaultAvailability]
  /\ zoneWest = FALSE
  /\ inflight = [r \in RaceRequests |-> Idle]

RaceVerdictPasses(ms, user, mid, body) == "ok"

\* updateMeeting up to the end of its conflict check: what the handler
\* decides from the documents it has read
RaceVerdict(ms, user, mid, body) ==
  IF mid \notin DOMAIN ms THEN "NotFound"
  ELSE IF NotHost(ms[mid], user) THEN "Forbidden"
  ELSE IF UpdateRejected(IF TimeChanged(ms[mid], body)
                         THEN UpdateConflicts(ms, mid, body) ELSE <<>>)
  THEN "Conflict"
  ELSE "ok"

\* a request of the host reads the meeting and checks the conflicts of the
\* accepted participants; sawWrite records whether the other request had
\* written by then
RaceCheck(r, mid, body) ==
  LET verdict == RaceVerdict(meetings, FirstHost, mid, body)
  IN /\ inflight[r].pc = "idle"
     /\ inflight' = [inflight EXCEPT ![r] =
                       [pc |-> IF verdict = "ok" THEN "checked" ELSE "done",
                        mid |-> mid, body |-> body, result |-> verdict,
                        sawWrite |-> \E o \in RaceRequests \ {r} :
                                        inflight[o].pc = "done" /\ inflight[o].result = "ok"]]
     /\ UNCHANGED <<meetings, invitations, bookings, nextId, now, calls, ticks, lastOp,
                    UserEmail, availability, zoneWest>>

\* the request that passed its check writes: findByIdAndUpdate applies the
\* body to the stored meeting, then the participants are rebuilt
RaceWrite(r) ==
  LET mid == inflight[r].mid
      ms2 == [meetings EXCEPT ![mid] = ApplyBody(@, inflight[r].body)]
  IN /\ inflight[r].pc = "checked"
     /\ meetings' = ms2
     /\ bookings' = RebuildParticipants(ms2, bookings, ms2[mid].participants, 1, now)
     /\ inflight' = [inflight EXCEPT ![r].pc = "done"]
     /\ UNCHANGED <<invitations, nextId, now, calls, ticks, lastOp, UserEmail,
                    availability, zoneWest>>

NextRace ==
  \/ \E r \in RaceRequests, mid \in 1..MaxDate, body \in RaceBodies : RaceCheck(r, mid, body)
  \/ \E r \in RaceRequests : RaceWrite(r)

SpecRace == InitRace /\ [][NextRace]_vars

\* --------------------------------------------- concurrent booking rebuilds
\* booking.save() sends the paths that were modified: an assignment marks a
\* list modified unless the value assigned equals the value loaded, which
\* for arrays of subdocuments (each cast gives its items new _ids) is the
\* case only when both are empty
ListModified(loaded, assigned) == ~(loaded = <<>> /\ assigned = <<>>)

\* the Booking stored after booking.save() of a document that was loaded as
\* `loaded` and assigned `lists`, when `stored` is in the collection
SaveModified(stored, loaded, lists) ==
  [upcomingMeetings |-> IF ListModified(loaded.upcomingMeetings, lists.upcomingMeetings)
                        THEN lists.upcomingMeetings ELSE stored.upcomingMeetings,
   pendingMeetings  |-> IF ListModified(loaded.pendingMeetings, lists.pendingMeetings)
                        THEN lists.pendingMeetings ELSE stored.pendingMeetings,
   canceledMeetings |-> IF ListModified(loaded.canceledMeetings, lists.canceledMeetings)
                        THEN lists.canceledMeetings ELSE stored.canceledMeetings,
   pastMeetings     |-> IF ListModified(loaded.pastMeetings, lists.pastMeetings)
                        THEN lists.pastMeetings ELSE stored.pastMeetings]

\* the user whose dashboard is rebuilt twice: the invitee of the meeting
Rebuilt == "ub"

NotStarted == [pc |-> "idle", lists |-> EmptyBooking, loaded |-> EmptyBooking,
               savedAt |-> 0]

InitRebuildRace ==
  /\ UserEmail = RegisteredEmail
  /\ meetings \in UUBMeetings
  /\ invitations = <<>>
  /\ bookings \in {[u \in Users |-> EmptyBooking],
                   [u \in Users |-> UpdateUserBookings(meetings, EmptyBooking, u, TRUE,
                                                       ToInstant(1, 0))]}
  /\ nextId = 2
  /\ now = ToInstant(1, 0)
  /\ calls = 0
  /\ ticks = 0
  /\ lastOp = [op |-> "init", user |-> None, result |-> "ok", info |-> <<>>,
              changed |-> TRUE]
  /\ availability = [u \in Users |-> DefaultAvailability]
  /\ zoneWest = FALSE
  /\ inflight = [r \in RaceRequests |-> NotStarted]

\* updateUserBookings: Meeting.find and the four lists computed from it
RebuildRead(r) ==
  /\ inflight[r].pc = "idle"
  /\ inflight' = [inflight EXCEPT ![r].pc = "read",
                                  ![r].lists = UUBLists(meetings, Rebuilt, TRUE, now)]
  /\ UNCHANGED <<meetings, invitations, bookings, nextId, now, calls, ticks, lastOp,
                 UserEmail, availability, zoneWest>>

\* updateUserBookings: Booking.findOne({ userId })
RebuildLoad(r) ==
  /\ inflight[r].pc = "read"
  /\ inflight' = [inflight EXCEPT ![r].pc = "loaded", ![r].loaded = bookings[Rebuilt]]
  /\ UNCHANGED <<meetings, invitations, bookings, nextId, now, calls, ticks, lastOp,
                 UserEmail, availability, zoneWest>>

\* updateUserBookings: the four assignments and booking.save()
RebuildSave(r) ==
  /\ inflight[r].pc = "loaded"
  /\ bookings' = [bookings EXCEPT ![Rebuilt] =
                    SaveModified(@, inflight[r].loaded, inflight[r].lists)]
  /\ inflight' = [inflight EXCEPT
                    ![r].pc = "saved",
                    ![r].savedAt = 1 + Cardinality({o \in RaceRequests :
                                                      inflight[o].pc = "saved"})]
  /\ UNCHANGED <<meetings, invitations, nextId, now, calls, ticks, lastOp,
                 UserEmail, availability, zoneWest>>

\* meeting.save() of respondToInvitation: the invitee's answer is stored,
\* once, while the rebuilds run
AnswerSaved(status) ==
  /\ calls < 1
  /\ calls' = calls + 1
  /\ meetings' = [meetings EXCEPT ![1].participants[1].status = status]
  /\ UNCHANGED <<invitations, bookings, nextId, now, ticks, lastOp, UserEmail,
                 availability, zoneWest, inflight>>

NextRebuildRace ==
  \/ \E r \in RaceRequests : RebuildRead(r)
  \/ \E r \in RaceRequests : RebuildLoad(r)
  \/ \E r \in RaceRequests : RebuildSave(r)
  \/ \E status \in {"accepted", "rejected"} : AnswerSaved(status)

SpecRebuildRace == InitRebuildRace /\ [][NextRebuildRace]_vars

\* ------------------------------------ deleteMeeting against a response
\* deleteMeeting of the host and one respondToInvitation addressed by the
\* meeting's id, each split at its awaits. inflight holds, for the delete, its
\* position and the participants it read, and for the response its position,
\* caller, status, the id of the invitation it holds and the participants of
\* the meeting document it loaded.
Raced == 1

DeleteRaceMeetings ==
  {(Raced :> [CreatedMeeting(FirstHost, 1, 0, MaxTime) EXCEPT !.participants = parts]) :
     parts \in {<<HostEntry(FirstHost)>>,
                <<[userId |-> "ub", email |-> RegisteredEmail["ub"], status |-> "pending",
                   responseAt |-> NoInt], HostEntry(FirstHost)>>}}

\* the invitations createMeeting stored for the pending entries of the meeting
DeleteRaceInvitations(ms) ==
  IF Len(ms[Raced].participants) > 1
  THEN (2 :> [meetingId |-> Raced, userId |-> "ub", email |-> RegisteredEmail["ub"],
              status |-> "pending"])
  ELSE <<>>

DeleteIdle == [pc |-> "idle", parts |-> <<>>, result |-> None]

RespondIdle == [pc |-> "idle", user |-> None, status |-> None, inv |-> NoInt,
                loaded |-> <<>>, host |-> None, result |-> None]

InitDeleteRace ==
  /\ UserEmail = RegisteredEmail
  /\ meetings \in DeleteRaceMeetings
  /\ invitations = DeleteRaceInvitations(meetings)
  /\ now = ToInstant(1, 0)
  /\ bookings = [u \in Users |-> UpdateUserBookings(meetings, EmptyBooking, u, TRUE, now)]
  /\ nextId = 3
  /\ calls = 0
  /\ ticks = 0
  /\ lastOp = [op |-> "init", user |-> None, result |-> "ok", info |-> <<>>,
              changed |-> TRUE]
  /\ availability = [u \in Users |-> DefaultAvailability]
  /\ zoneWest = FALSE
  /\ inflight = [del |-> DeleteIdle, resp |-> RespondIdle]

\* deleteMeeting: Meeting.findById, the host check and participantIds
DeleteFind ==
  /\ inflight.del.pc = "idle"
  /\ inflight' =
       IF Raced \notin DOMAIN meetings
       THEN [inflight EXCEPT !.del.pc = "done", !.del.result = "NotFound"]
       ELSE IF NotHost(meetings[Raced], FirstHost)
       THEN [inflight EXCEPT !.del.pc = "done", !.del.result = "Forbidden"]
       ELSE [inflight EXCEPT !.del.pc = "found",
                             !.del.parts = meetings[Raced].participants]
  /\ UNCHANGED <<meetings, invitations, bookings, nextId, now, calls, ticks, lastOp,
                 UserEmail, availability, zoneWest>>

\* deleteMeeting: MeetingInvitation.deleteMany({ meetingId })
DeleteInvitations ==
  /\ inflight.del.pc = "found"
  /\ invitations' = RemainingInvitations(invitations, Raced)
  /\ inflight' = [inflight EXCEPT !.del.pc = "invitationsDeleted"]
  /\ UNCHANGED <<meetings, bookings, nextId, now, calls, ticks, lastOp,
                 UserEmail, availability, zoneWest>>

\* deleteMeeting: meeting.deleteOne()
DeleteOne ==
  /\ inflight.del.pc = "invitationsDeleted"
  /\ meetings' = [id \in DOMAIN meetings \ {Raced} |-> meetings[id]]
  /\ inflight' = [inflight EXCEPT !.del.pc = "meetingDeleted"]
  /\ UNCHANGED <<invitations, bookings, nextId, now, calls, ticks, lastOp,
                 UserEmail, availability, zoneWest>>

\* deleteMeeting: the rebuild of every participant that carries a userId,
\* and the answer
DeleteRebuild ==
  /\ inflight.del.pc = "meetingDeleted"
  /\ bookings' = RebuildParticipants(meetings, bookings, inflight.del.parts, 1, now)
  /\ inflight' = [inflight EXCEPT !.del.pc = "done", !.del.result = "ok"]
  /\ UNCHANGED <<meetings, invitations, nextId, now, calls, ticks, lastOp,
                 UserEmail, availability, zoneWest>>

\* respondToInvitation: the status check; MeetingInvitation.findById finds no
\* invitation under the meeting's id; Meeting.findById decides between 404
\* and ensureInvitationExists
RespondFindMeeting(user, status) ==
  /\ inflight.resp.pc = "idle"
  /\ Raced \notin DOMAIN invitations
  /\ inflight' =
       IF ~StatusValid(status)
       THEN [inflight EXCEPT !.resp.pc = "done", !.resp.user = user,
                             !.resp.status = status, !.resp.result = "InvalidInput"]
       ELSE IF Raced \in DOMAIN meetings
       THEN [inflight EXCEPT !.resp.pc = "meetingFound", !.resp.user = user,
                             !.resp.status = status]
       ELSE [inflight EXCEPT !.resp.pc = "done", !.resp.user = user,
                             !.resp.status = status, !.resp.result = "NotFound"]
  /\ UNCHANGED <<meetings, invitations, bookings, nextId, now, calls, ticks, lastOp,
                 UserEmail, availability, zoneWest>>

\* ensureInvitationExists: MeetingInvitation.findOne
RespondEnsureFind ==
  /\ inflight.resp.pc = "meetingFound"
  /\ LET user == inflight.resp.user
         ens  == EnsureInvitationExists(invitations, nextId, Raced, user, UserEmail[user])
     IN inflight' = IF ens.nid = nextId
                    THEN [inflight EXCEPT !.resp.pc = "ensured", !.resp.inv = ens.id]
                    ELSE [inflight EXCEPT !.resp.pc = "creating"]
  /\ UNCHANGED <<meetings, invitations, bookings, nextId, now, calls, ticks, lastOp,
                 UserEmail, availability, zoneWest>>

\* ensureInvitationExists: MeetingInvitation.create
RespondEnsureCreate ==
  /\ inflight.resp.pc = "creating"
  /\ LET user == inflight.resp.user
     IN invitations' = invitations @@
                         (nextId :> [meetingId |-> Raced, userId |-> user,
                                     email |-> UserEmail[user], status |-> "pending"])
  /\ nextId' = nextId + 1
  /\ inflight' = [inflight EXCEPT !.resp.pc = "ensured", !.resp.inv = nextId]
  /\ UNCHANGED <<meetings, bookings, now, calls, ticks, lastOp,
                 UserEmail, availability, zoneWest>>

\* respondToInvitation: invitation.save() with the new status; the update of
\* an invitation that is no longer stored fails and stores nothing
RespondSaveInvitation ==
  /\ inflight.resp.pc = "ensured"
  /\ IF inflight.resp.inv \in DOMAIN invitations
     THEN /\ invitations' = [invitations EXCEPT
                               ![inflight.resp.inv].status = inflight.resp.status]
          /\ inflight' = [inflight EXCEPT !.resp.pc = "invitationSaved"]
     ELSE /\ invitations' = invitations
          /\ inflight' = [inflight EXCEPT !.resp.pc = "done", !.resp.result = "Error"]
  /\ UNCHANGED <<meetings, bookings, nextId, now, calls, ticks, lastOp,
                 UserEmail, availability, zoneWest>>

\* respondToInvitation: Meeting.findById(invitation.meetingId)
RespondLoadMeeting ==
  /\ inflight.resp.pc = "invitationSaved"
  /\ inflight' =
       IF Raced \in DOMAIN meetings
       THEN [inflight EXCEPT !.resp.pc = "meetingLoaded",
                             !.resp.loaded = meetings[Raced].participants,
                             !.resp.host = meetings[Raced].hostId]
       ELSE [inflight EXCEPT !.resp.pc = "done", !.resp.result = "NotFound"]
  /\ UNCHANGED <<meetings, invitations, bookings, nextId, now, calls, ticks, lastOp,
                 UserEmail, availability, zoneWest>>

\* respondToInvitation: the participant entry and meeting.save(); the save of
\* a meeting that is no longer stored writes nothing, and fails when it has a
\* change to send (with nothing to send, it fails or passes with the driver)
RespondSaveMeeting(passes) ==
  /\ inflight.resp.pc = "meetingLoaded"
  /\ LET r     == inflight.resp
         inv   == [email |-> UserEmail[r.user]]
         parts == RespondParticipants(r.loaded, inv, r.user, r.status, now)
     IN IF Raced \in DOMAIN meetings
        THEN /\ meetings' = [meetings EXCEPT ![Raced].participants = parts]
             /\ inflight' = [inflight EXCEPT !.resp.pc = "meetingSaved"]
        ELSE /\ meetings' = meetings
             /\ inflight' = IF parts = r.loaded /\ passes
                            THEN [inflight EXCEPT !.resp.pc = "meetingSaved"]
                            ELSE [inflight EXCEPT !.resp.pc = "done",
                                                  !.resp.result = "Error"]
  /\ UNCHANGED <<invitations, bookings, nextId, now, calls, ticks, lastOp,
                 UserEmail, availability, zoneWest>>

\* respondToInvitation: updateUserBookings of the caller and of the host,
\* and the answer
RespondRebuild ==
  /\ inflight.resp.pc = "meetingSaved"
  /\ LET user == inflight.resp.user
         host == inflight.resp.host
         bk1  == [bookings EXCEPT ![user] =
                    UpdateUserBookings(meetings, @, user, TRUE, now)]
     IN bookings' = IF host # user
                    THEN [bk1 EXCEPT ![host] =
                            UpdateUserBookings(meetings, @, host, FALSE, now)]
                    ELSE bk1
  /\ inflight' = [inflight EXCEPT !.resp.pc = "done", !.resp.result = "ok"]
  /\ UNCHANGED <<meetings, invitations, nextId, now, calls, ticks, lastOp,
                 UserEmail, availability, zoneWest>>

NextDeleteRace ==
  \/ DeleteFind
  \/ DeleteInvitations
  \/ DeleteOne
  \/ DeleteRebuild
  \/ \E user \in Users, status \in ResponseStatuses : RespondFindMeeting(user, status)
  \/ RespondEnsureFind
  \/ RespondEnsureCreate
  \/ RespondSaveInvitation
  \/ RespondLoadMeeting
  \/ \E passes \in BOOLEAN : RespondSaveMeeting(passes)
  \/ RespondRebuild

SpecDeleteRace == InitDeleteRace /\ [][NextDeleteRace]_vars

\* ------------------------------------------------------------------ claims
Max(S) == CHOOSE x \in S : \A y \in S : y <= x

\* the ids held by the four lists of a set of lists
ListedElsewhere(lists) ==
  ItemIds(lists.upcomingMeetings) \cup ItemIds(lists.pendingMeetings)
    \cup ItemIds(lists.canceledMeetings)

\* the three rebuilds of a user's dashboard in the current state
RebuiltLists(user) ==
  {UUBLists(meetings, user, TRUE, now), UUBLists(meetings, user, FALSE, now),
   RefreshLists(meetings, invitations, user, now)}

\* C1: when the host changes date, startTime or endTime and some accepted
\* participant has a conflict at the new time (the edited meeting excluded),
\* updateMeeting fails with the list of the conflicting participants and the
\* meetings, invitations and bookings stay exactly as they were.
C1_ConflictRejectsUpdate ==
  \A mid \in DOMAIN meetings, body \in UpdateBodies :
    LET m    == meetings[mid]
        out  == UpdateMeetingOut(m.hostId, mid, body)
        nd   == IF body.date # NoInt THEN body.date ELSE m.date
        ns   == IF body.startTime # NoInt THEN body.startTime ELSE m.startTime
        ne   == IF body.endTime # NoInt THEN body.endTime ELSE m.endTime
        hit  == {i \in 1..Len(m.participants) :
                   /\ m.participants[i].status = "accepted"
                   /\ CheckTimeConflict(meetings, m.participants[i].userId,
                                        nd, ns, ne, mid) # NoInt}
    IN (<<nd, ns, ne>> # <<m.date, m.startTime, m.endTime>> /\ hit # {}) =>
         /\ out.result = "Conflict"
         /\ {out.info[k].email : k \in 1..Len(out.info)}
              = {m.participants[i].email : i \in hit}
         /\ out.meetings = meetings
         /\ out.invitations = invitations
         /\ out.bookings = bookings

\* C1 witness: an update has just been refused with a non-empty conflict list
C1_Witness ==
  /\ lastOp.op = "updateMeeting"
  /\ lastOp.result = "Conflict"
  /\ Len(lastOp.info) > 0

\* C2: after a completed createMeeting or respondToInvitation, every
\* invitation has the status of each participant entry of its meeting that
\* carries the same email.
C2_InvitationMirrorsParticipant ==
  (lastOp.op \in {"createMeeting", "respondToInvitation"} /\ lastOp.result = "ok") =>
    \A id \in DOMAIN invitations :
      LET inv == invitations[id]
      IN inv.meetingId \in DOMAIN meetings =>
           \A i \in 1..Len(meetings[inv.meetingId].participants) :
             LET p == meetings[inv.meetingId].participants[i]
             IN p.email = inv.email => p.status = inv.status

\* C3: once an invitation or a participant entry is accepted or rejected, no
\* respondToInvitation call changes its status.
C3_ResponseIsTerminal ==
  \A user \in Users, id \in 1..nextId, status \in ResponseStatuses :
    LET out == RespondOut(user, id, status)
    IN /\ \A inv \in DOMAIN invitations :
            invitations[inv].status \in {"accepted", "rejected"} =>
              out.invitations[inv].status = invitations[inv].status
       /\ \A mid \in DOMAIN meetings :
            \A i \in 1..Len(meetings[mid].participants) :
              meetings[mid].participants[i].status \in {"accepted", "rejected"} =>
                out.meetings[mid].participants[i].status
                  = meetings[mid].participants[i].status

\* C4: a response by a user who is neither the invitation's userId nor owns
\* its email fails with Forbidden and changes nothing, whether or not the
\* invitation carries a userId.
C4_NonOwnerForbidden ==
  \A user \in Users, id \in DOMAIN invitations, status \in {"accepted", "rejected"} :
    (invitations[id].userId # user /\ invitations[id].email # UserEmail[user]) =>
      LET out == RespondOut(user, id, status)
      IN /\ out.result = "Forbidden"
         /\ out.invitations = invitations
         /\ out.meetings = meetings
         /\ out.bookings = bookings

\* the invitees of a createMeeting request that resolve to a registered user
\* for whom checkTimeConflict reports a conflict
ConflictingInvitees(host, date, startTime, endTime, invitees) ==
  LET ms0 == meetings @@ (nextId :> CreatedMeeting(host, date, startTime, endTime))
  IN {i \in 1..Len(invitees) :
        /\ FindUserByEmail(invitees[i]) # None
        /\ CheckTimeConflict(ms0, FindUserByEmail(invitees[i]), date, startTime,
                             endTime, NoInt) # NoInt}

CheckWindows == Times \X Times

\* C6: checkTimeConflict returns a meeting only if it is on the given date,
\* is not the excluded one, overlaps the window, and the user hosts it or the
\* user's own participant entry in it is accepted (windows of positive
\* length on both sides).
C6_ConflictOnlyOwnAccepted ==
  \A user \in Users, date \in 1..(MaxDate + 1), w \in CheckWindows,
     exclude \in DOMAIN meetings \cup {NoInt} :
    LET r == CheckTimeConflict(meetings, user, date, w[1], w[2], exclude)
    IN (r # NoInt /\ w[1] < w[2] /\ meetings[r].startTime < meetings[r].endTime) =>
         /\ meetings[r].date = date
         /\ r # exclude
         /\ (w[1] < meetings[r].endTime /\ meetings[r].startTime < w[2])
         /\ \/ meetings[r].hostId = user
            \/ \E i \in 1..Len(meetings[r].participants) :
                 /\ meetings[r].participants[i].userId = user
                 /\ meetings[r].participants[i].status = "accepted"

\* C7: for windows with start <= end on one date the overlap test of
\* checkTimeConflict answers s1 < e2 /\ s2 < e1.
C7_OverlapIsHalfOpen ==
  \A mid \in DOMAIN meetings, w \in CheckWindows :
    LET m == meetings[mid]
    IN (w[1] <= w[2] /\ m.startTime <= m.endTime) =>
         (TimeOverlap(ToInstant(m.date, w[1]), ToInstant(m.date, w[2]),
                      ToInstant(m.date, m.startTime), ToInstant(m.date, m.endTime))
            <=> (w[1] < m.endTime /\ m.startTime < w[2]))

\* earlier contents a Booking document may hold when a rebuild starts
OldBookings == {EmptyBooking} \cup {bookings[u] : u \in Users}

IsPastMeeting(m) ==
  \/ m.date < now \div DayLen
  \/ ToInstant(m.date, m.endTime) < now

\* the user has a participant entry of their own (id and email) in the meeting
OwnEntry(m, user) ==
  \E i \in 1..Len(m.participants) :
    /\ m.participants[i].userId = user
    /\ m.participants[i].email = UserEmail[user]

\* C9: every rebuild lists a past meeting under past and under no other
\* list, whatever the meeting status and the participant status.
C9_PastWins ==
  \A user \in Users, mid \in DOMAIN meetings :
    IsPastMeeting(meetings[mid]) =>
      \A lists \in RebuiltLists(user) :
        /\ mid \notin ListedElsewhere(lists)
        /\ OwnEntry(meetings[mid], user) => mid \in ItemIds(lists.pastMeetings)

\* C9 witness: a stored dashboard lists a past meeting that its user rejected
\* under past
C9_Witness ==
  \E user \in Users, mid \in DOMAIN meetings :
    /\ IsPastMeeting(meetings[mid])
    /\ \E i \in 1..Len(meetings[mid].participants) :
         /\ meetings[mid].participants[i].userId = user
         /\ meetings[mid].participants[i].status = "rejected"
    /\ \E k \in 1..Len(bookings[user].pastMeetings) :
         /\ bookings[user].pastMeetings[k].meetingId = mid
         /\ bookings[user].pastMeetings[k].status = "rejected"

\* C10: after any rebuild no meeting id is in more than one of the four lists.
C10_ListsDisjoint ==
  \A user \in Users :
    \A lists \in RebuiltLists(user) :
      LET up == ItemIds(lists.upcomingMeetings)
          pe == ItemIds(lists.pendingMeetings)
          ca == ItemIds(lists.canceledMeetings)
          pa == ItemIds(lists.pastMeetings)
      IN /\ up \cap pe = {} /\ up \cap ca = {} /\ up \cap pa = {}
         /\ pe \cap ca = {} /\ pe \cap pa = {} /\ ca \cap pa = {}

\* C11: after any rebuild of a user's dashboard no meeting the user hosts is
\* in the user's pending list, also when a pending invitation addressed to
\* the user exists for it.
C11_HostNeverPending ==
  \A user \in Users, mid \in DOMAIN meetings :
    meetings[mid].hostId = user =>
      \A lists \in RebuiltLists(user) : mid \notin ItemIds(lists.pendingMeetings)

\* C12: when the host sets a meeting to canceled through toggleMeetingStatus
\* (explicit status, or the cycle step that leads to canceled) the call
\* succeeds and stores the status, and for a meeting that is not past the
\* dashboard of every registered participant lists it under canceled.
C12_ToggleToCanceled ==
  \A mid \in DOMAIN meetings, bodyStatus \in ToggleBodies :
    LET m   == meetings[mid]
        out == ToggleMeetingStatusOut(m.hostId, mid, bodyStatus)
    IN ToggledStatus(m.status, bodyStatus) = "canceled" =>
         /\ out.result = "ok"
         /\ out.meetings[mid].status = "canceled"
         /\ ~IsPastMeeting(m) =>
              \A i \in 1..Len(m.participants) :
                m.participants[i].userId # None =>
                  mid \in ItemIds(out.bookings[m.participants[i].userId].canceledMeetings)

\* a booking lists the meeting under upcoming and under no other list
OnlyUpcoming(booking, mid) ==
  /\ mid \in ItemIds(booking.upcomingMeetings)
  /\ mid \notin ItemIds(booking.pendingMeetings)
  /\ mid \notin ItemIds(booking.canceledMeetings)
  /\ mid \notin ItemIds(booking.pastMeetings)

\* C13: after a completed respondToInvitation(accepted) by an invitee on a
\* meeting that is neither past nor cancelled, the stored Bookings of the
\* invitee and of the host list the meeting under upcoming only.
C13_AcceptMovesToUpcoming ==
  \A user \in Users, id \in DOMAIN invitations :
    LET out == RespondOut(user, id, "accepted")
        mid == invitations[id].meetingId
    IN (/\ out.result = "ok"
        /\ invitations[id].userId = user
        /\ invitations[id].email = UserEmail[user]
        /\ meetings[mid].hostId # user
        /\ ~IsPastMeeting(meetings[mid])
        /\ meetings[mid].status # "cancelled") =>
         /\ OnlyUpcoming(out.bookings[user], mid)
         /\ OnlyUpcoming(out.bookings[meetings[mid].hostId], mid)

\* C14: after a successful duplicateMeeting the host's stored Booking holds
\* an entry for the copy, under upcoming when the copy is not past.
C14_DuplicateRebuildsHost ==
  \A mid \in DOMAIN meetings, date \in Dates \cup {NoInt} :
    LET host == meetings[mid].hostId
        out  == DuplicateMeetingOut(host, mid, date)
        copy == out.info[1]
        b    == out.bookings[host]
    IN out.result = "ok" =>
         /\ copy \in ListedElsewhere(b) \cup ItemIds(b.pastMeetings)
         /\ ~IsPastMeeting(out.meetings[copy]) => copy \in ItemIds(b.upcomingMeetings)

\* C15: updateMeeting, deleteMeeting, toggleMeetingActive, toggleMeetingStatus
\* and duplicateMeeting on an existing meeting by a caller who is not its
\* host fail with Forbidden and leave every meeting, invitation and booking
\* as it was.
C15_NonHostForbidden ==
  \A user \in Users, mid \in DOMAIN meetings :
    meetings[mid].hostId # user =>
      LET outs == {UpdateMeetingOut(user, mid, body) : body \in UpdateBodies}
                    \cup {DeleteMeetingOut(user, mid)}
                    \cup {ToggleMeetingActiveOut(user, mid, a) : a \in ActiveBodies}
                    \cup {ToggleMeetingStatusOut(user, mid, t) : t \in ToggleBodies}
                    \cup {DuplicateMeetingOut(user, mid, d) : d \in Dates \cup {NoInt}}
      IN \A out \in outs :
           /\ out.result = "Forbidden"
           /\ out.meetings = meetings
           /\ out.invitations = invitations
           /\ out.bookings = bookings
           /\ out.nextId = nextId

\* C15 witness: a host-only request by another user has just been refused
\* while the meeting it named is stored
C15_Witness ==
  /\ lastOp.op \in {"updateMeeting", "deleteMeeting", "toggleMeetingActive",
                    "toggleMeetingStatus", "duplicateMeeting"}
  /\ lastOp.result = "Forbidden"
  /\ \E mid \in DOMAIN meetings : meetings[mid].hostId # lastOp.user

\* the host's accepted entry of a meeting has a conflict at the time the body asks for
HostConflicts(mid, body) ==
  LET m == meetings[mid]
  IN /\ TimeChanged(m, body)
     /\ \E i \in 1..Len(m.participants) :
          /\ m.participants[i].userId = m.hostId
          /\ m.participants[i].status = "accepted"
     /\ CheckTimeConflict(meetings, m.hostId, BodyOr(body.date, m.date),
                          BodyOr(body.startTime, m.startTime),
                          BodyOr(body.endTime, m.endTime), mid) # NoInt

\* the conflict of the host is between windows of positive length, and no
\* accepted participant other than the host has a conflict at that time
OnlyHostConflicts(mid, body) ==
  LET m == meetings[mid]
      r == CheckTimeConflict(meetings, m.hostId, BodyOr(body.date, m.date),
                             BodyOr(body.startTime, m.startTime),
                             BodyOr(body.endTime, m.endTime), mid)
  IN /\ HostConflicts(mid, body)
     /\ BodyOr(body.startTime, m.startTime) < BodyOr(body.endTime, m.endTime)
     /\ meetings[r].startTime < meetings[r].endTime
     /\ \A i \in 1..Len(m.participants) :
          (/\ m.participants[i].status = "accepted"
           /\ m.participants[i].userId \notin {None, m.hostId}) =>
            CheckTimeConflict(meetings, m.participants[i].userId,
                              BodyOr(body.date, m.date),
                              BodyOr(body.startTime, m.startTime),
                              BodyOr(body.endTime, m.endTime), mid) = NoInt

\* C16 as stated: when the new time overlaps only another meeting of the
\* host, the update is not rejected and the new time is stored.
C16_GuardExcludesHost ==
  \A mid \in DOMAIN meetings, body \in UpdateBodies :
    OnlyHostConflicts(mid, body) =>
      LET out == UpdateMeetingOut(meetings[mid].hostId, mid, body)
      IN /\ out.result = "ok"
         /\ out.meetings[mid] = ApplyBody(meetings[mid], body)

\* C16 amended: the guard covers the host's own accepted entry: when the new
\* time overlaps another meeting of the host the update is rejected, the
\* host is in the conflict list and nothing is stored.
C16_GuardIncludesHost ==
  \A mid \in DOMAIN meetings, body \in UpdateBodies :
    HostConflicts(mid, body) =>
      LET out == UpdateMeetingOut(meetings[mid].hostId, mid, body)
      IN /\ out.result = "Conflict"
         /\ \E k \in 1..Len(out.info) : out.info[k].userId = meetings[mid].hostId
         /\ out.meetings = meetings
         /\ out.invitations = invitations
         /\ out.bookings = bookings

\* C16 witness: an update has just been refused with the host, and nobody
\* else, in the conflict list
C16_Witness ==
  /\ lastOp.op = "updateMeeting"
  /\ lastOp.result = "Conflict"
  /\ Len(lastOp.info) > 0
  /\ \A k \in 1..Len(lastOp.info) : lastOp.info[k].userId = lastOp.user

\* C17: createMeeting with an invitee email of no registered user succeeds:
\* the meeting is stored with a pending entry without userId for that email,
\* a pending invitation for it, and the host as accepted participant.
C17_UnregisteredInviteeSucceeds ==
  \A host \in Users, date \in Dates, w \in Windows, invitees \in InviteeLists :
    LET out == CreateMeetingOut(host, date, w[1], w[2], invitees)
        mid == nextId
    IN \A i \in 1..Len(invitees) :
         FindUserByEmail(invitees[i]) = None =>
           /\ out.result = "ok"
           /\ \E k \in 1..Len(out.meetings[mid].participants) :
                /\ out.meetings[mid].participants[k].email = invitees[i]
                /\ out.meetings[mid].participants[k].userId = None
                /\ out.meetings[mid].participants[k].status = "pending"
           /\ \E id \in DOMAIN out.invitations :
                /\ out.invitations[id].meetingId = mid
                /\ out.invitations[id].email = invitees[i]
                /\ out.invitations[id].status = "pending"
           /\ \E k \in 1..Len(out.meetings[mid].participants) :
                /\ out.meetings[mid].participants[k].userId = host
                /\ out.meetings[mid].participants[k].status = "accepted"

\* C18: after createMeeting and respondToInvitation calls no meeting holds
\* two participant entries with the same email.
C18_OneEntryPerEmail ==
  \A mid \in DOMAIN meetings :
    \A i, j \in 1..Len(meetings[mid].participants) :
      i # j => meetings[mid].participants[i].email # meetings[mid].participants[j].email

\* C19: after createMeeting and respondToInvitation calls there is at most
\* one invitation for each pair of meeting and invitee email.
C19_OneInvitationPerInvitee ==
  \A a, b \in DOMAIN invitations :
    (/\ invitations[a].meetingId = invitations[b].meetingId
     /\ invitations[a].email = invitations[b].email) => a = b

\* C20: respondToInvitation(accepted) by its owner on an invitation that is
\* already accepted changes nothing: invitations, participant entries
\* (status, userId, responseAt) and the Bookings stay as they were.
C20_AcceptTwiceIsNoOp ==
  \A user \in Users, id \in DOMAIN invitations :
    (/\ invitations[id].status = "accepted"
     /\ invitations[id].userId = user
     /\ invitations[id].email = UserEmail[user]) =>
      LET out == RespondOut(user, id, "accepted")
          mid == invitations[id].meetingId
      IN /\ out.invitations = invitations
         /\ mid \in DOMAIN meetings =>
              out.meetings[mid].participants = meetings[mid].participants
         /\ out.bookings = bookings

\* C21: updateUserBookings called with an id that no User document has
\* returns null and neither creates nor changes a Booking document.
C21_MissingUserNoBooking ==
  \A userId \in GhostIds, idIsString \in BOOLEAN :
     LET out == UUBStore(meetings, bookings, userId, idIsString, now)
     IN /\ out.result = "null"
        /\ out.bookings = bookings
        /\ DOMAIN out.bookings = Users

\* a call for a missing user has returned null, next to a call for a user
\* that did write that user's Booking
C21_Witness ==
  /\ lastOp.op = "updateUserBookings"
  /\ lastOp.user \in GhostIds
  /\ lastOp.result = "null"
  /\ \E u \in Users : bookings[u] # EmptyBooking

\* C22: from the registration default, after any sequence of
\* updateDayAvailability, updateWeekendAvailability and copyTimeSlots calls
\* every stored day entry has no slots when it is unavailable and at least
\* one slot when it is available.
C22_AvailabilityCanonical ==
  \A u \in Users : \A i \in 1..Len(availability[u]) :
     LET entry == availability[u][i]
     IN /\ ~entry.isAvailable => entry.slots = <<>>
        /\ entry.isAvailable => Len(entry.slots) > 0

\* the days a copy request lists as targets, the source left out
ListedTargets(sourceDay, targetDays) ==
  {targetDays[k] : k \in 1..Len(targetDays)} \ {sourceDay}

\* C23: copyTimeSlots changes only listed target days other than the source:
\* an existing available target receives the slots of the source, an
\* existing unavailable target is left as it is, an absent target is
\* inserted as available with the slots of the source; the source and the
\* unlisted days stay as they are, and a refused request changes nothing.
C23_CopyFrame ==
  \A sourceDay \in RequestDays \cup {None}, targetDays \in TargetLists :
     LET old    == availability[FirstHost]
         out    == CopyTimeSlotsOut(FirstHost, sourceDay, targetDays)
         new    == out.availability
         listed == ListedTargets(sourceDay, targetDays)
         absent == {d \in listed : DayIndex(old, d) = 0}
         slots  == old[DayIndex(old, sourceDay)].slots
     IN IF out.result = "ok"
        THEN /\ Len(new) = Len(old) + Cardinality(absent)
             /\ \A i \in 1..Len(old) :
                   IF /\ old[i].day \in listed
                      /\ DayIndex(old, old[i].day) = i
                      /\ old[i].isAvailable
                   THEN new[i] = [old[i] EXCEPT !.slots = slots]
                   ELSE new[i] = old[i]
             /\ \A d \in absent : \E i \in (Len(old) + 1)..Len(new) :
                   new[i] = [day |-> d, isAvailable |-> TRUE, slots |-> slots]
        ELSE new = old

\* a copy has inserted an absent day next to a day that stays unavailable
C23_Witness ==
  /\ lastOp.op = "copyTimeSlots"
  /\ lastOp.result = "ok"
  /\ lastOp.changed
  /\ Len(availability[FirstHost]) = 3
  /\ \E i \in 1..Len(availability[FirstHost]) : ~availability[FirstHost][i].isAvailable

\* the inputs of a check request whose target is a user
CheckRequests ==
  {r \in [caller : Users, userId : TargetRefs, date : Dates, window : Windows] :
     TargetUser(r.caller, r.userId) \in Users}

CheckOut(r) ==
  CheckUserAvailabilityOut(r.caller, r.userId, r.date, r.window[1], r.window[2])

\* the entry of the target's availability that the handler looks up
ConsultedIndex(r) ==
  DayIndex(availability[TargetUser(r.caller, r.userId)], DayOfWeek(r.date, zoneWest))

ConsultedEntry(r) == availability[TargetUser(r.caller, r.userId)][ConsultedIndex(r)]

NoConflict(r) ==
  CheckTimeConflict(meetings, TargetUser(r.caller, r.userId), r.date,
                    r.window[1], r.window[2], NoInt) = NoInt

\* C24: checkUserAvailability answers available=false, without looking for
\* meeting conflicts, whenever the target's entry for the weekday of the date
\* is unavailable or absent.
C24_ClosedDayUnavailable ==
  \A r \in CheckRequests :
     LET avail == availability[TargetUser(r.caller, r.userId)]
         idx   == DayIndex(avail, Weekday(r.date))
     IN (idx = 0 \/ ~avail[idx].isAvailable)
          => ~CheckOut(r).available /\ ~CheckOut(r).consulted

\* the window lies inside a slot of the entry that has both bounds
InsideSlot(entry, window) ==
  \E k \in 1..Len(entry.slots) :
     /\ entry.slots[k].startTime # NoInt
     /\ entry.slots[k].endTime # NoInt
     /\ entry.slots[k].startTime <= window[1]
     /\ window[2] <= entry.slots[k].endTime

\* C25: for an available day with at least one stored slot the answer is
\* available=true exactly when the window lies inside a slot with both
\* bounds and checkTimeConflict finds no meeting, and checkTimeConflict is
\* called exactly when the slot check passed.
C25_FitsSlotAndFree ==
  \A r \in CheckRequests :
     (/\ ConsultedIndex(r) # 0
      /\ ConsultedEntry(r).isAvailable
      /\ Len(ConsultedEntry(r).slots) > 0)
       => /\ CheckOut(r).result = "ok"
          /\ CheckOut(r).consulted = InsideSlot(ConsultedEntry(r), r.window)
          /\ CheckOut(r).available =
               (InsideSlot(ConsultedEntry(r), r.window) /\ NoConflict(r))

\* a check passed the slot test and was refused for a meeting conflict, on a
\* day whose stored slot has both bounds
C25_Witness ==
  /\ lastOp.op = "checkUserAvailability"
  /\ lastOp.result = "ok"
  /\ Len(lastOp.info) = 2
  /\ ~lastOp.info[1]
  /\ lastOp.info[2]
  /\ meetings # <<>>

\* C26: for a day stored as available with the single slot whose bounds are
\* empty, checkUserAvailability answers available=true for every window
\* without a meeting conflict.
C26_AllDayAvailable ==
  \A r \in CheckRequests :
     (/\ ConsultedIndex(r) # 0
      /\ ConsultedEntry(r).isAvailable
      /\ ConsultedEntry(r).slots = <<EmptySlot>>
      /\ NoConflict(r))
       => CheckOut(r).available

\* the invitations of a meeting addressed to a user by id or by email
InvitationsFor(mid, user) ==
  {i \in DOMAIN invitations :
     /\ invitations[i].meetingId = mid
     /\ (invitations[i].userId = user \/ invitations[i].email = UserEmail[user])}

\* C27: respondToInvitation with an id of a meeting and of no invitation
\* answers through the one invitation of (that meeting, acting user): the
\* first stored one, or else one new invitation, created for the acting
\* user's id and email, and no other invitation is created or changed; with
\* an id of neither collection it fails with NotFound and changes nothing.
C27_RespondByMeetingId ==
  \A user \in Users, id \in 1..nextId, status \in {"accepted", "rejected"} :
     LET out   == RespondOut(user, id, status)
         found == InvitationsFor(id, user)
     IN IF id \in DOMAIN invitations THEN TRUE
        ELSE IF id \in DOMAIN meetings
        THEN /\ out.result = "ok"
             /\ IF found = {}
                THEN /\ out.info \notin DOMAIN invitations
                     /\ DOMAIN out.invitations = DOMAIN invitations \cup {out.info}
                     /\ out.invitations[out.info] =
                          [meetingId |-> id, userId |-> user,
                           email |-> UserEmail[user], status |-> status]
                ELSE /\ out.info \in found
                     /\ \A other \in found : out.info <= other
                     /\ DOMAIN out.invitations = DOMAIN invitations
                     /\ out.invitations[out.info] =
                          [invitations[out.info] EXCEPT !.status = status]
             /\ \A i \in DOMAIN invitations \ {out.info} :
                   out.invitations[i] = invitations[i]
             /\ out.meetings[id].participants =
                  RespondParticipants(meetings[id].participants,
                                      out.invitations[out.info], user, status, now)
        ELSE /\ out.result = "NotFound"
             /\ out.meetings = meetings
             /\ out.invitations = invitations
             /\ out.bookings = bookings
             /\ out.nextId = nextId

\* a response given under the id of a meeting has created the invitation it
\* answered: the invitation answered carries the last id handed out
C27_Witness ==
  /\ lastOp.op = "respondToInvitation"
  /\ lastOp.result = "ok"
  /\ lastOp.info = nextId - 1
  /\ lastOp.info \in DOMAIN invitations
  /\ invitations[lastOp.info].status \in {"accepted", "rejected"}

\* C28: after a successful deleteMeeting no invitation references the
\* deleted meeting and no Booking of a participant of the meeting that
\* carries a userId lists it.
C28_DeleteCascades ==
  \A user \in Users, mid \in DOMAIN meetings :
     LET out == DeleteMeetingOut(user, mid)
     IN out.result = "ok" =>
          /\ mid \notin DOMAIN out.meetings
          /\ \A i \in DOMAIN out.invitations : out.invitations[i].meetingId # mid
          /\ \A k \in 1..Len(meetings[mid].participants) :
                LET p == meetings[mid].participants[k].userId
                IN p \in Users =>
                     mid \notin ListedElsewhere(out.bookings[p])
                                  \cup ItemIds(out.bookings[p].pastMeetings)

\* a meeting that had invitations was deleted: ids were handed out after the
\* meeting's own, and no meeting and no invitation is left
C28_Witness ==
  /\ lastOp.op = "deleteMeeting"
  /\ lastOp.result = "ok"
  /\ nextId > 2
  /\ meetings = <<>>
  /\ invitations = <<>>

\* the user is accepted in two meetings on one date whose windows, both of
\* positive length, overlap
DoubleBooked(user) ==
  \E a \in DOMAIN meetings, b \in DOMAIN meetings :
     /\ a < b
     /\ meetings[a].date = meetings[b].date
     /\ meetings[a].startTime < meetings[a].endTime
     /\ meetings[b].startTime < meetings[b].endTime
     /\ meetings[a].startTime < meetings[b].endTime
     /\ meetings[b].startTime < meetings[a].endTime
     /\ \A m \in {a, b} : \E k \in 1..Len(meetings[m].participants) :
           /\ meetings[m].participants[k].userId = user
           /\ meetings[m].participants[k].status = "accepted"

BothCommitted ==
  \A r \in RaceRequests : inflight[r].pc = "done" /\ inflight[r].result = "ok"

\* C29: the conflict check of updateMeeting and the write after it are not
\* isolated.  Two requests that each move a meeting of the host onto the same
\* free day, both checked before either wrote, both commit and leave the host
\* accepted in two overlapping meetings; whenever two committed requests
\* leave the host double booked, neither check had seen the other's write.
C29_RaceDoubleBooks ==
  /\ (BothCommitted /\ DoubleBooked(FirstHost))
       => \A r \in RaceRequests : ~inflight[r].sawWrite
  /\ (/\ BothCommitted
      /\ inflight[1].mid # inflight[2].mid
      /\ \A r \in RaceRequests : inflight[r].body.date = MaxDate + 1
      /\ \A r \in RaceRequests :
            meetings[inflight[r].mid].startTime < meetings[inflight[r].mid].endTime
      /\ \E r \in RaceRequests :
            /\ meetings[inflight[r].mid].startTime = 0
            /\ meetings[inflight[r].mid].endTime = MaxTime)
       => DoubleBooked(FirstHost)

\* both requests passed the check before either wrote, both wrote, and the
\* host is accepted in two overlapping meetings of one date
C29_Witness ==
  /\ BothCommitted
  /\ \A r \in RaceRequests : ~inflight[r].sawWrite
  /\ DoubleBooked(FirstHost)

BothSaved == \A r \in RaceRequests : inflight[r].pc = "saved"

Engaged(ms, mid, user) ==
  \/ ms[mid].hostId = user
  \/ \E k \in 1..Len(ms[mid].participants) :
        /\ ms[mid].participants[k].userId = user
        /\ ms[mid].participants[k].status = "accepted"

\* two stored meetings of one date whose windows, both of positive length,
\* overlap
RealOverlap(ms, a, b) ==
  /\ ms[a].date = ms[b].date
  /\ ms[a].startTime < ms[a].endTime
  /\ ms[b].startTime < ms[b].endTime
  /\ ms[a].startTime < ms[b].endTime
  /\ ms[b].startTime < ms[a].endTime

\* C31: with one request at a time, respondToInvitation(accepted) never
\* marks a user accepted in a meeting that overlaps another meeting of the
\* same date in which the user is host or accepted participant.
C31_AcceptChecksConflicts ==
  \A user \in Users, id \in 1..nextId :
     LET out == RespondOut(user, id, "accepted")
     IN out.result = "ok" =>
          \A mid \in DOMAIN out.meetings, other \in DOMAIN out.meetings :
             (/\ mid # other
              /\ ~Engaged(meetings, mid, user)
              /\ Engaged(out.meetings, mid, user)
              /\ Engaged(out.meetings, other, user))
               => ~RealOverlap(out.meetings, mid, other)

\* the meeting ids of each of the four lists
ListIds(lists) ==
  [upcomingMeetings |-> ItemIds(lists.upcomingMeetings),
   pendingMeetings  |-> ItemIds(lists.pendingMeetings),
   canceledMeetings |-> ItemIds(lists.canceledMeetings),
   pastMeetings     |-> ItemIds(lists.pastMeetings)]

\* C32: for the same user, records and clock, updateUserBookings (called
\* with the id string of the request) and refreshBookings put the same
\* meetings in the upcoming, pending, canceled and past lists.
C32_RebuildsAgree ==
  \A user \in Users :
     ListIds(UUBLists(meetings, user, TRUE, now))
       = ListIds(RefreshLists(meetings, invitations, user, now))

\* the user has an entry in the meeting, by id or by email
HasEntry(m, user) ==
  \E k \in 1..Len(m.participants) :
     \/ m.participants[k].userId = user
     \/ m.participants[k].email = UserEmail[user]

\* C35: a rebuild for a user who hosts a meeting and has no participant
\* entry in it classifies the meeting as past, canceled or upcoming: neither
\* updateUserBookings nor refreshBookings skips it.
C35_HostWithoutEntryListed ==
  \A user \in Users, mid \in DOMAIN meetings :
     (meetings[mid].hostId = user /\ ~HasEntry(meetings[mid], user))
       => /\ RefreshCategory(meetings[mid], user, now) \in {"past", "canceled", "upcoming"}
          /\ \A idIsString \in BOOLEAN :
                UUBCategory(meetings[mid], user, idIsString, now)
                  \in {"past", "canceled", "upcoming"}

\* C33: when createMeeting succeeds, the Booking of every registered invitee
\* for whom an invitation was created lists the new meeting, if it is not
\* past, under pending.
C33_InviteeSeesPending ==
  [][(/\ lastOp'.op = "createMeeting"
      /\ lastOp'.result = "ok"
      /\ nextId' > nextId
      /\ ~UUBIsPast(meetings'[nextId], now))
       => \A i \in DOMAIN invitations' \ DOMAIN invitations :
             invitations'[i].userId \in Users
               => nextId \in ItemIds(bookings'[invitations'[i].userId].pendingMeetings)]_vars

\* the entries of a participants array that belong to the user, by id or by
\* email
EntriesOf(parts, user) ==
  {k \in 1..Len(parts) : parts[k].userId = user \/ parts[k].email = UserEmail[user]}

\* the meeting a response under the id addresses: that of the invitation, or
\* the meeting itself
AddressedMeeting(id) ==
  IF id \in DOMAIN invitations THEN invitations[id].meetingId ELSE id

\* C34: a successful respondToInvitation(accepted) leaves the responder
\* with exactly one participant entry in the meeting, accepted and carrying
\* the responder's id; a successful respondToInvitation(rejected) of a user
\* without entry stores rejected on the invitation and adds no entry.
C34_OneAcceptedEntry ==
  \A user \in Users, id \in 1..nextId :
     LET mid      == AddressedMeeting(id)
         accepted == RespondOut(user, id, "accepted")
         rejected == RespondOut(user, id, "rejected")
     IN /\ accepted.result = "ok" =>
             LET parts == accepted.meetings[mid].participants
             IN /\ Cardinality(EntriesOf(parts, user)) = 1
                /\ \A k \in EntriesOf(parts, user) :
                      parts[k].status = "accepted" /\ parts[k].userId = user
        /\ (rejected.result = "ok" /\ EntriesOf(meetings[mid].participants, user) = {})
             => /\ rejected.invitations[rejected.info].status = "rejected"
                /\ rejected.meetings[mid].participants = meetings[mid].participants

\* the stored meeting has exactly one entry of its host, and it is accepted
OneHostEntry(m) ==
  LET own == {k \in 1..Len(m.participants) : m.participants[k].userId = m.hostId}
  IN /\ Cardinality(own) = 1
     /\ \A k \in own : m.participants[k].status = "accepted"

\* the meetings a call has added to the collection
StoredBy(out) == {mid \in DOMAIN out.meetings : mid \notin DOMAIN meetings}

\* C36: after createMeeting or duplicateMeeting has returned, with
\* success or with an error, the meeting it stored has exactly one participant
\* entry for its host and that entry is accepted.
C36_HostEntryAlways ==
  /\ \A host \in Users, date \in Dates, w \in Windows, invitees \in InviteeLists :
        LET out == CreateMeetingOut(host, date, w[1], w[2], invitees)
        IN \A mid \in StoredBy(out) : OneHostEntry(out.meetings[mid])
  /\ \A user \in Users, mid \in DOMAIN meetings, date \in Dates \cup {NoInt} :
        LET out == DuplicateMeetingOut(user, mid, date)
        IN \A copy \in StoredBy(out) : OneHostEntry(out.meetings[copy])

\* every item of the list that refers to the meeting carries the given isActive
ListCarries(list, mid, isActive) ==
  \A k \in 1..Len(list) : list[k].meetingId = mid => list[k].isActive = isActive

\* C37: after toggleMeetingActive completes, every stored Booking entry
\* that refers to the meeting carries the meeting's current isActive.
C37_BookingsFollowIsActive ==
  \A user \in Users, mid \in DOMAIN meetings, isActive \in ActiveBodies :
     LET out == ToggleMeetingActiveOut(user, mid, isActive)
     IN out.result = "ok" =>
          \A owner \in Users :
             LET b == out.bookings[owner]
                 a == out.meetings[mid].isActive
             IN /\ ListCarries(b.upcomingMeetings, mid, a)
                /\ ListCarries(b.pendingMeetings, mid, a)
                /\ ListCarries(b.canceledMeetings, mid, a)
                /\ ListCarries(b.pastMeetings, mid, a)

\* the meeting the last createMeeting stored: ids grow, so it is the newest
NewestMeeting == CHOOSE mid \in DOMAIN meetings : \A other \in DOMAIN meetings : other <= mid

\* the emails the host listed in the last createMeeting, read from its answer
ListedEmails == {lastOp.info[i].email : i \in 1..Len(lastOp.info)}

\* the user is an accepted participant of the meeting
AcceptedIn(m, user) ==
  \E k \in 1..Len(m.participants) :
     m.participants[k].userId = user /\ m.participants[k].status = "accepted"

\* C38: a user the host never invited does not become an accepted
\* participant through respondToInvitation: right after a createMeeting, a
\* user who is not the host and whose email the host did not list is not an
\* accepted participant of the new meeting after a response addressed by the
\* meeting's id.
C38_UninvitedStaysOut ==
  (lastOp.op = "createMeeting" /\ DOMAIN meetings # {}) =>
     \A user \in Users :
        LET mid == NewestMeeting
            out == RespondOut(user, mid, "accepted")
        IN (meetings[mid].hostId # user /\ UserEmail[user] \notin ListedEmails)
              => ~(out.result = "ok" /\ AcceptedIn(out.meetings[mid], user))

\* the delete and the response have both answered
BothFinished == inflight.del.pc = "done" /\ inflight.resp.pc = "done"

\* C39: when deleteMeeting runs concurrently with a respondToInvitation
\* addressed by the meeting's id, then once both have finished (the delete
\* with success) no invitation references the deleted meeting, under every
\* interleaving.
C39_NoOrphanInvitation ==
  (BothFinished /\ inflight.del.result = "ok") =>
     \A id \in DOMAIN invitations : invitations[id].meetingId # Raced
====
